---- MODULE Spec2Model ----
(***************************************************************************)
(* Model of the simple_db engine: the table row validator (core/types.rs), *)
(* the memory and directory stores (core/storage), and the SQL executor    *)
(* (core/sql/executor.rs) driving them.                                    *)
(***************************************************************************)
EXTENDS Integers, Sequences, FiniteSets, TLC

(***************************************************************************)
(* Bounds of the model.                                                    *)
(***************************************************************************)
\* Largest row index passed to update_row and delete_row.
MaxIndex == 1
\* Largest number of value tuples in one multi-row INSERT.
MaxTuples == 2
\* Number of calls made on one database instance.
MaxSteps == 3
\* Largest number of statements in one script.
MaxStatements == 3
\* The number of input lines of an interactive session.
MaxLines == 3

(***************************************************************************)
(* DataType (core/types.rs): Int(i32) | Varchar(String) | Null.            *)
(***************************************************************************)
Int32(n) == [tag |-> "Int", i |-> n, s |-> ""]
Varchar(str) == [tag |-> "Varchar", i |-> 0, s |-> str]
Null == [tag |-> "Null", i |-> 0, s |-> ""]

\* ColumnType: Int(Option<usize>) | Varchar(usize); len is the VARCHAR
\* maximum (the optional INT width is not storage-significant: 0).
Col(n, ty, len, nullable, pk) ==
    [name |-> n, ty |-> ty, len |-> len, nullable |-> nullable, primary_key |-> pk]

\* Column lists of the CREATE TABLE statements issued:
\*   (id INT PRIMARY KEY, name VARCHAR(2) NOT NULL)
\*   (id INT PRIMARY KEY, name VARCHAR(2))
\*   (v INT NOT NULL)
Schemas ==
    { << Col("id", "Int", 0, TRUE, TRUE), Col("name", "Varchar", 2, FALSE, FALSE) >>,
      << Col("id", "Int", 0, TRUE, TRUE), Col("name", "Varchar", 2, TRUE, FALSE) >>,
      << Col("v", "Int", 0, FALSE, FALSE) >> }

TableNames == {"t", "u"}

\* Table::new
NewTable(name, columns) == [name |-> name, columns |-> columns, rows |-> << >>]

Min(S) == CHOOSE x \in S : \A y \in S : x <= y

\* position(|c| pred): index of the first column named n, 0 when absent.
ColumnIndex(columns, n) ==
    LET hits == {i \in 1..Len(columns) : columns[i].name = n}
    IN IF hits = {} THEN 0 ELSE Min(hits)

\* DataType::matches_column_type
MatchesColumnType(v, column) ==
    CASE v.tag = "Int" /\ column.ty = "Int" -> TRUE
      [] v.tag = "Varchar" /\ column.ty = "Varchar" -> Len(v.s) <= column.len
      [] v.tag = "Null" -> TRUE
      [] OTHER -> FALSE

\* Table::check_primary_key_constraint: "ok" or the error kind.
CheckPrimaryKeyConstraint(t, row) ==
    LET pks == {i \in 1..Len(t.columns) : t.columns[i].primary_key}
    IN IF pks = {} THEN "ok"
       ELSE LET pk == Min(pks)
            IN IF row[pk].tag = "Null" THEN "ok"
               ELSE IF \E r \in 1..Len(t.rows) : t.rows[r][pk] = row[pk]
                    THEN "PrimaryKeyViolation"
                    ELSE "ok"

\* The validator without its arity check (a row of any length reaches the
\* per-column checks, which zip stops at the shorter sequence).
ValidateRowNoArity(t, row) ==
    LET n == IF Len(row) < Len(t.columns) THEN Len(row) ELSE Len(t.columns)
        bad == {i \in 1..n :
                   \/ ~MatchesColumnType(row[i], t.columns[i])
                   \/ (~t.columns[i].nullable /\ row[i].tag = "Null")
                   \/ (t.columns[i].primary_key /\ row[i].tag = "Null")}
    IN IF bad # {}
       THEN IF ~MatchesColumnType(row[Min(bad)], t.columns[Min(bad)])
            THEN "TypeMismatch" ELSE "NullValue"
       ELSE IF Len(row) < Len(t.columns) THEN "ok"
            ELSE CheckPrimaryKeyConstraint(t, row)

\* Table::validate_row: "ok" or the kind of the first error found.
ValidateRow(t, row) ==
    IF Len(row) # Len(t.columns) THEN "TypeMismatch"
    ELSE LET bad == {i \in 1..Len(row) :
                        \/ ~MatchesColumnType(row[i], t.columns[i])
                        \/ (~t.columns[i].nullable /\ row[i].tag = "Null")
                        \/ (t.columns[i].primary_key /\ row[i].tag = "Null")}
         IN IF bad # {}
            THEN IF ~MatchesColumnType(row[Min(bad)], t.columns[Min(bad)])
                 THEN "TypeMismatch" ELSE "NullValue"
            ELSE CheckPrimaryKeyConstraint(t, row)

(***************************************************************************)
(* Catalog: a map from table name to Table (HashMap<String, Table>).       *)
(***************************************************************************)
NoTables == [n \in {} |-> NewTable(n, << >>)]

Put(f, k, v) == [x \in (DOMAIN f) \cup {k} |-> IF x = k THEN v ELSE f[x]]

Remove(f, k) == [x \in (DOMAIN f) \ {k} |-> f[x]]

\* Vec::remove(i) with i counted from 1.
RemoveAt(seq, i) == SubSeq(seq, 1, i - 1) \o SubSeq(seq, i + 1, Len(seq))

(***************************************************************************)
(* The persisted document of a table (serde_json of the derived            *)
(* Serialize/Deserialize of Table, Column, ColumnType and DataType).       *)
(* A JSON value is a number, a string, or an object with one key.          *)
(***************************************************************************)
JStr(str) == [j |-> "str", key |-> "", num |-> 0, str |-> str]
JObjNum(k, n) == [j |-> "obj:num", key |-> k, num |-> n, str |-> ""]
JObjStr(k, str) == [j |-> "obj:str", key |-> k, num |-> 0, str |-> str]

\* DataType -> JSON: {"Int": n}, {"Varchar": "s"}, "Null"
SerializeValue(v) ==
    CASE v.tag = "Int" -> JObjNum("Int", v.i)
      [] v.tag = "Varchar" -> JObjStr("Varchar", v.s)
      [] OTHER -> JStr("Null")

\* JSON -> DataType
DeserializeValue(x) ==
    CASE x.j = "obj:num" /\ x.key = "Int" -> Int32(x.num)
      [] x.j = "obj:str" /\ x.key = "Varchar" -> Varchar(x.str)
      [] OTHER -> Null

\* Column -> JSON object {name, data_type: {"Int": bits} | {"Varchar": n}, nullable, primary_key}
SerializeColumn(c) ==
    [name |-> JStr(c.name), data_type |-> JObjNum(c.ty, c.len),
     nullable |-> c.nullable, primary_key |-> c.primary_key]

DeserializeColumn(x) ==
    Col(x.name.str, x.data_type.key, x.data_type.num, x.nullable, x.primary_key)

\* serde_json::to_string_pretty(table)
SerializeTable(t) ==
    [name |-> JStr(t.name),
     columns |-> [i \in 1..Len(t.columns) |-> SerializeColumn(t.columns[i])],
     rows |-> [r \in 1..Len(t.rows) |->
                  [i \in 1..Len(t.rows[r]) |-> SerializeValue(t.rows[r][i])]]]

\* serde_json::from_str::<Table>(content)
DeserializeTable(doc) ==
    [name |-> doc.name.str,
     columns |-> [i \in 1..Len(doc.columns) |-> DeserializeColumn(doc.columns[i])],
     rows |-> [r \in 1..Len(doc.rows) |->
                  [i \in 1..Len(doc.rows[r]) |-> DeserializeValue(doc.rows[r][i])]]]

\* The tables/ directory: a map from file stem to document.
NoFiles == [n \in {} |-> SerializeTable(NewTable(n, << >>))]

\* FileStorage::save_table: writes <name>.json when the table is in memory.
SaveTable(tbls, files, name) ==
    IF name \in DOMAIN tbls THEN Put(files, name, SerializeTable(tbls[name])) ELSE files

\* A save that writes nothing.
SaveNothing(tbls, files) == files

\* FileStorage::save: save_table for every key of the map.
FileSave(tbls, files) ==
    [n \in (DOMAIN files) \cup (DOMAIN tbls) |->
        IF n \in DOMAIN tbls THEN SerializeTable(tbls[n]) ELSE files[n]]

\* FileStorage::load / load_table: clear, then one table per .json file,
\* keyed by the file stem.
FileLoad(files) == [n \in DOMAIN files |-> DeserializeTable(files[n])]

(***************************************************************************)
(* Store operations.  Each returns [err, tables, disk]; err = "none" on    *)
(* success, otherwise the error kind (DbError / TypeError variant).        *)
(***************************************************************************)
Res(err, tbls, files) == [err |-> err, tables |-> tbls, disk |-> files]

\* MemoryStorage::create_table
MemoryCreateTable(tbls, files, table) ==
    IF table.name \in DOMAIN tbls THEN Res("Table", tbls, files)
    ELSE Res("none", Put(tbls, table.name, table), files)

\* A create_table that overwrites an existing table.
FileCreateTableOverwrite(tbls, files, table) ==
    Res("none", Put(tbls, table.name, table),
        SaveTable(Put(tbls, table.name, table), files, table.name))

\* FileStorage::create_table
FileCreateTable(tbls, files, table) ==
    IF table.name \in DOMAIN tbls THEN Res("Table", tbls, files)
    ELSE Res("none", Put(tbls, table.name, table),
             SaveTable(Put(tbls, table.name, table), files, table.name))

\* MemoryStorage::drop_table
MemoryDropTable(tbls, files, name) ==
    IF name \notin DOMAIN tbls THEN Res("Table", tbls, files)
    ELSE Res("none", Remove(tbls, name), files)

\* A drop_table that leaves the table file behind.
FileDropTableKeepFile(tbls, files, name) ==
    IF name \in DOMAIN tbls THEN Res("none", Remove(tbls, name), files)
    ELSE Res("Table", tbls, files)

\* FileStorage::drop_table
FileDropTable(tbls, files, name) ==
    IF name \in DOMAIN tbls THEN Res("none", Remove(tbls, name), Remove(files, name))
    ELSE Res("Table", tbls, files)

\* An insert_row that pushes the row before validating it.
TableInsertRowPushFirst(t, row) ==
    [err |-> IF ValidateRow(t, row) = "ok" THEN "none" ELSE ValidateRow(t, row),
     table |-> [t EXCEPT !.rows = Append(@, row)]]

\* Table::insert_row: validate_row(&row)?; rows.push(row).  [err, table]
TableInsertRow(t, row) ==
    IF ValidateRow(t, row) # "ok"
    THEN [err |-> ValidateRow(t, row), table |-> t]
    ELSE [err |-> "none", table |-> [t EXCEPT !.rows = Append(@, row)]]

\* MemoryStorage::insert_row
MemoryInsertRow(tbls, files, name, row) ==
    IF name \notin DOMAIN tbls THEN Res("Table", tbls, files)
    ELSE LET r == TableInsertRow(tbls[name], row)
         IN Res(r.err, Put(tbls, name, r.table), files)

\* An insert_row of the directory store that does not write the file.
FileInsertRowNoSave(tbls, files, name, row) ==
    IF name \notin DOMAIN tbls THEN Res("Table", tbls, files)
    ELSE LET r == TableInsertRow(tbls[name], row)
         IN Res(r.err, Put(tbls, name, r.table), files)

\* FileStorage::insert_row
FileInsertRow(tbls, files, name, row) ==
    IF name \notin DOMAIN tbls THEN Res("Table", tbls, files)
    ELSE LET r == TableInsertRow(tbls[name], row)
             after == Put(tbls, name, r.table)
         IN IF r.err # "none" THEN Res(r.err, after, files)
            ELSE Res("none", after, SaveTable(after, files, name))

\* MemoryStorage::delete_row (row_index counted from 0)
MemoryDeleteRow(tbls, files, name, row_index) ==
    IF name \notin DOMAIN tbls THEN Res("Table", tbls, files)
    ELSE IF row_index >= Len(tbls[name].rows) THEN Res("Table", tbls, files)
         ELSE Res("none",
                  Put(tbls, name, [tbls[name] EXCEPT !.rows = RemoveAt(@, row_index + 1)]),
                  files)

\* FileStorage::delete_row
FileDeleteRow(tbls, files, name, row_index) ==
    IF name \notin DOMAIN tbls THEN Res("Table", tbls, files)
    ELSE IF row_index < Len(tbls[name].rows)
         THEN LET after == Put(tbls, name,
                               [tbls[name] EXCEPT !.rows = RemoveAt(@, row_index + 1)])
              IN Res("none", after, SaveTable(after, files, name))
         ELSE Res("Table", tbls, files)

\* MemoryStorage::update_row: index check, then validation, then replace.
MemoryUpdateRow(tbls, files, name, row_index, row) ==
    IF name \notin DOMAIN tbls THEN Res("Table", tbls, files)
    ELSE IF row_index >= Len(tbls[name].rows) THEN Res("Table", tbls, files)
         ELSE IF ValidateRow(tbls[name], row) # "ok"
              THEN Res(ValidateRow(tbls[name], row), tbls, files)
              ELSE Res("none",
                       Put(tbls, name, [tbls[name] EXCEPT !.rows[row_index + 1] = row]),
                       files)

\* FileStorage::update_row: validation, then index check, then replace and save.
FileUpdateRow(tbls, files, name, row_index, row) ==
    IF name \notin DOMAIN tbls THEN Res("Table", tbls, files)
    ELSE IF ValidateRow(tbls[name], row) # "ok"
         THEN Res(ValidateRow(tbls[name], row), tbls, files)
         ELSE IF row_index < Len(tbls[name].rows)
              THEN LET after == Put(tbls, name,
                                    [tbls[name] EXCEPT !.rows[row_index + 1] = row])
                   IN Res("none", after, SaveTable(after, files, name))
              ELSE Res("Table", tbls, files)

\* Dispatch through the Storage trait object (kind is "memory" or "file").
StorageCreateTable(kind, tbls, files, table) ==
    IF kind = "file" THEN FileCreateTable(tbls, files, table)
    ELSE MemoryCreateTable(tbls, files, table)

StorageDropTable(kind, tbls, files, name) ==
    IF kind = "file" THEN FileDropTable(tbls, files, name)
    ELSE MemoryDropTable(tbls, files, name)

StorageInsertRow(kind, tbls, files, name, row) ==
    IF kind = "file" THEN FileInsertRow(tbls, files, name, row)
    ELSE MemoryInsertRow(tbls, files, name, row)

StorageDeleteRow(kind, tbls, files, name, row_index) ==
    IF kind = "file" THEN FileDeleteRow(tbls, files, name, row_index)
    ELSE MemoryDeleteRow(tbls, files, name, row_index)

StorageUpdateRow(kind, tbls, files, name, row_index, row) ==
    IF kind = "file" THEN FileUpdateRow(tbls, files, name, row_index, row)
    ELSE MemoryUpdateRow(tbls, files, name, row_index, row)

\* save: MemoryStorage::save is Ok(()) with no effect.
StorageSave(kind, tbls, files) ==
    IF kind = "file" THEN FileSave(tbls, files) ELSE files

\* load: MemoryStorage::load is Ok(()) with no effect.
StorageLoad(kind, tbls, files) ==
    IF kind = "file" THEN FileLoad(files) ELSE tbls

\* Database::new: FileStorage::new loads the directory, MemoryStorage::new
\* is an empty map.
DatabaseNew(kind, files) ==
    IF kind = "file" THEN FileLoad(files) ELSE NoTables

(***************************************************************************)
(* WHERE clauses (core/sql/mod.rs WhereClause, Operator) and their          *)
(* evaluation (executor.rs evaluate_where_clause).                          *)
(***************************************************************************)
Simple(column, operator, value) ==
    [kind |-> "Simple", column |-> column, operator |-> operator, value |-> value]
And(l, r) == [kind |-> "And", left |-> l, right |-> r]
Or(l, r) == [kind |-> "Or", left |-> l, right |-> r]
\* where_clause: None
NoWhere == [kind |-> "None"]

\* Rank of the strings of the model in Rust's String ordering (byte-wise
\* lexicographic): "" < "a" < "abc".
StrRank(str) == CASE str = "" -> 0 [] str = "a" -> 1 [] str = "abc" -> 2 [] OTHER -> 3

\* An ordering comparison that is false, instead of an error, on a pair
\* of variants the match does not list.
CompareOrderedLenient(a, operator, b) ==
    LET cmp(x, y) == CASE operator = "Gt" -> x > y
                       [] operator = "Lt" -> x < y
                       [] operator = "Ge" -> x >= y
                       [] OTHER -> x <= y
    IN CASE a.tag = "Int" /\ b.tag = "Int" ->
                IF cmp(a.i, b.i) THEN "true" ELSE "false"
         [] a.tag = "Varchar" /\ b.tag = "Varchar" ->
                IF cmp(StrRank(a.s), StrRank(b.s)) THEN "true" ELSE "false"
         [] OTHER -> "false"

\* The ordering operators on two values: "true", "false", or "error" for a
\* pair of variants the match does not list.
CompareOrdered(a, operator, b) ==
    LET cmp(x, y) == CASE operator = "Gt" -> x > y
                       [] operator = "Lt" -> x < y
                       [] operator = "Ge" -> x >= y
                       [] OTHER -> x <= y
    IN CASE a.tag = "Int" /\ b.tag = "Int" ->
                IF cmp(a.i, b.i) THEN "true" ELSE "false"
         [] a.tag = "Varchar" /\ b.tag = "Varchar" ->
                IF cmp(StrRank(a.s), StrRank(b.s)) THEN "true" ELSE "false"
         [] OTHER -> "error"

\* WhereClause::Simple
EvaluateSimple(row, w, columns) ==
    LET ci == ColumnIndex(columns, w.column)
    IN IF ci = 0 THEN "error"
       ELSE CASE w.operator = "Eq" -> IF row[ci] = w.value THEN "true" ELSE "false"
              [] w.operator = "Ne" -> IF row[ci] # w.value THEN "true" ELSE "false"
              [] w.operator = "IsNull" -> IF row[ci].tag = "Null" THEN "true" ELSE "false"
              [] w.operator = "IsNotNull" -> IF row[ci].tag # "Null" THEN "true" ELSE "false"
              [] OTHER -> CompareOrdered(row[ci], w.operator, w.value)

RECURSIVE EvaluateWhereClauseEager(_, _, _)
\* An evaluation of AND / OR that evaluates both operands before combining.
EvaluateWhereClauseEager(row, w, columns) ==
    IF w.kind = "Simple" THEN EvaluateSimple(row, w, columns)
    ELSE LET l == EvaluateWhereClauseEager(row, w.left, columns)
             r == EvaluateWhereClauseEager(row, w.right, columns)
         IN IF l = "error" \/ r = "error" THEN "error"
            ELSE IF w.kind = "And"
                 THEN (IF l = "true" /\ r = "true" THEN "true" ELSE "false")
                 ELSE (IF l = "true" \/ r = "true" THEN "true" ELSE "false")

RECURSIVE EvaluateWhereClause(_, _, _)
\* evaluate_where_clause: "true", "false" or "error" (Err(SqlError)).
EvaluateWhereClause(row, w, columns) ==
    CASE w.kind = "Simple" -> EvaluateSimple(row, w, columns)
      [] w.kind = "And" ->
            LET l == EvaluateWhereClause(row, w.left, columns)
            IN IF l # "true" THEN l ELSE EvaluateWhereClause(row, w.right, columns)
      [] OTHER ->
            LET l == EvaluateWhereClause(row, w.left, columns)
            IN IF l # "false" THEN l ELSE EvaluateWhereClause(row, w.right, columns)

\* where_clause.is_none() || evaluate_where_clause(...)?
Matches(row, w, columns) ==
    IF w.kind = "None" THEN "true" ELSE EvaluateWhereClause(row, w, columns)

(***************************************************************************)
(* SqlExecutor::execute, one operator per statement variant.  Each returns *)
(* [err, tables, disk, k]; k counts the value tuples inserted.             *)
(***************************************************************************)
XRes(err, tbls, files, k) == [err |-> err, tables |-> tbls, disk |-> files, k |-> k]

\* The executor's pre-check of a full row: NULL in a primary-key or
\* non-nullable column.
HasNullViolation(table_columns, values) ==
    \E i \in 1..Len(table_columns) :
        /\ values[i].tag = "Null"
        /\ (table_columns[i].primary_key \/ ~table_columns[i].nullable)

\* SqlStatement::CreateTable
ExecCreateTable(kind, tbls, files, name, columns) ==
    LET r == StorageCreateTable(kind, tbls, files, NewTable(name, columns))
    IN XRes(r.err, r.tables, r.disk, 0)

\* SqlStatement::DropTable
ExecDropTable(kind, tbls, files, name) ==
    LET r == StorageDropTable(kind, tbls, files, name)
    IN XRes(r.err, r.tables, r.disk, 0)

RECURSIVE ExecDropTablesStopAtFailure(_, _, _, _)
\* A multi-drop that returns the first error and drops nothing after it.
ExecDropTablesStopAtFailure(kind, tbls, files, names) ==
    IF names = << >> THEN XRes("none", tbls, files, 0)
    ELSE LET r == StorageDropTable(kind, tbls, files, Head(names))
         IN IF r.err # "none" THEN XRes(r.err, r.tables, r.disk, 0)
            ELSE ExecDropTablesStopAtFailure(kind, r.tables, r.disk, Tail(names))

RECURSIVE ExecDropTables(_, _, _, _)
\* SqlStatement::DropTables: every name in order, errors only logged.
ExecDropTables(kind, tbls, files, names) ==
    IF names = << >> THEN XRes("none", tbls, files, 0)
    ELSE LET r == StorageDropTable(kind, tbls, files, Head(names))
         IN ExecDropTables(kind, r.tables, r.disk, Tail(names))

\* One positional tuple of Insert / InsertMultiple: arity, NULL pre-check,
\* then the store's insert_row.
InsertTuple(kind, tbls, files, name, table_columns, values) ==
    IF Len(values) # Len(table_columns) THEN Res("Sql", tbls, files)
    ELSE IF HasNullViolation(table_columns, values) THEN Res("NullValue", tbls, files)
         ELSE StorageInsertRow(kind, tbls, files, name, values)

\* SqlStatement::Insert
ExecInsert(kind, tbls, files, name, values) ==
    IF name \notin DOMAIN tbls THEN XRes("Table", tbls, files, 0)
    ELSE LET r == InsertTuple(kind, tbls, files, name, tbls[name].columns, values)
         IN XRes(r.err, r.tables, r.disk, IF r.err = "none" THEN 1 ELSE 0)

RECURSIVE InsertLoop(_, _, _, _, _, _, _)
\* for values in rows { ...; self.storage.insert_row(&table, values)?; }
InsertLoop(kind, tbls, files, name, table_columns, rows, done) ==
    IF rows = << >> THEN XRes("none", tbls, files, done)
    ELSE LET r == InsertTuple(kind, tbls, files, name, table_columns, Head(rows))
         IN IF r.err # "none" THEN XRes(r.err, r.tables, r.disk, done)
            ELSE InsertLoop(kind, r.tables, r.disk, name, table_columns, Tail(rows), done + 1)

\* SqlStatement::InsertMultiple
ExecInsertMultiple(kind, tbls, files, name, rows) ==
    IF name \notin DOMAIN tbls THEN XRes("Table", tbls, files, 0)
    ELSE InsertLoop(kind, tbls, files, name, tbls[name].columns, rows, 0)

Max(S) == CHOOSE x \in S : \A y \in S : x >= y

\* full_row: NULL everywhere, then each listed column's position receives
\* the value at the same place of the tuple (a later duplicate overwrites).
FullRow(table_columns, columns, row_values) ==
    [c \in 1..Len(table_columns) |->
        LET from == {i \in 1..Len(columns) : ColumnIndex(table_columns, columns[i]) = c}
        IN IF from = {} THEN Null ELSE row_values[Max(from)]]

\* One tuple of InsertWithColumns.
InsertTupleWithColumns(kind, tbls, files, name, table_columns, columns, row_values) ==
    IF Len(row_values) # Len(columns) THEN Res("Sql", tbls, files)
    ELSE LET full_row == FullRow(table_columns, columns, row_values)
         IN IF HasNullViolation(table_columns, full_row) THEN Res("NullValue", tbls, files)
            ELSE StorageInsertRow(kind, tbls, files, name, full_row)

RECURSIVE InsertWithColumnsLoop(_, _, _, _, _, _, _, _)
\* for row_values in rows { ...; self.storage.insert_row(&table, full_row)?; }
InsertWithColumnsLoop(kind, tbls, files, name, table_columns, columns, rows, done) ==
    IF rows = << >> THEN XRes("none", tbls, files, done)
    ELSE LET r == InsertTupleWithColumns(kind, tbls, files, name, table_columns,
                                         columns, Head(rows))
         IN IF r.err # "none" THEN XRes(r.err, r.tables, r.disk, done)
            ELSE InsertWithColumnsLoop(kind, r.tables, r.disk, name, table_columns,
                                       columns, Tail(rows), done + 1)

\* SqlStatement::InsertWithColumns
ExecInsertWithColumns(kind, tbls, files, name, columns, rows) ==
    IF name \notin DOMAIN tbls THEN XRes("Table", tbls, files, 0)
    ELSE IF \E i \in 1..Len(columns) : ColumnIndex(tbls[name].columns, columns[i]) = 0
         THEN XRes("Sql", tbls, files, 0)
         ELSE InsertWithColumnsLoop(kind, tbls, files, name, tbls[name].columns,
                                    columns, rows, 0)

\* The row after the SET list: assignments applied in order, names that are
\* not a column skipped.
RECURSIVE ApplySet(_, _, _)
ApplySet(row, set, columns) ==
    IF set = << >> THEN row
    ELSE LET ci == ColumnIndex(columns, Head(set)[1])
         IN ApplySet(IF ci = 0 THEN row ELSE [row EXCEPT ![ci] = Head(set)[2]],
                     Tail(set), columns)

\* An UPDATE that assigns to every row of the table.
ExecUpdateAllRows(kind, tbls, files, name, set, w) ==
    IF name \notin DOMAIN tbls THEN XRes("Table", tbls, files, 0)
    ELSE LET t == tbls[name]
             m == [i \in 1..Len(t.rows) |-> Matches(t.rows[i], w, t.columns)]
         IN IF \E i \in 1..Len(t.rows) : m[i] = "error"
            THEN XRes("Sql", tbls, files, 0)
            ELSE XRes("none",
                      Put(tbls, name,
                          [t EXCEPT !.rows =
                              [i \in 1..Len(t.rows) |-> ApplySet(t.rows[i], set, t.columns)]]),
                      files, 0)

RECURSIVE UpdateLoop(_, _, _, _, _)
\* Rows evaluated and assigned one after the other: [err, rows]
UpdateLoop(rows, i, set, w, columns) ==
    IF i > Len(rows) THEN [err |-> "none", rows |-> rows]
    ELSE LET m == Matches(rows[i], w, columns)
         IN CASE m = "error" -> [err |-> "Sql", rows |-> rows]
              [] m = "true" ->
                    UpdateLoop([rows EXCEPT ![i] = ApplySet(rows[i], set, columns)],
                               i + 1, set, w, columns)
              [] OTHER -> UpdateLoop(rows, i + 1, set, w, columns)

\* An UPDATE that assigns to each matching row as soon as it is found.
ExecUpdateRowByRow(kind, tbls, files, name, set, w) ==
    IF name \notin DOMAIN tbls THEN XRes("Table", tbls, files, 0)
    ELSE LET r == UpdateLoop(tbls[name].rows, 1, set, w, tbls[name].columns)
         IN XRes(r.err, Put(tbls, name, [tbls[name] EXCEPT !.rows = r.rows]), files, 0)

\* SqlStatement::Update: WHERE on every row first (the first error returns),
\* then the assignments written into the rows through get_table_mut.
ExecUpdate(kind, tbls, files, name, set, w) ==
    IF name \notin DOMAIN tbls THEN XRes("Table", tbls, files, 0)
    ELSE LET t == tbls[name]
             m == [i \in 1..Len(t.rows) |-> Matches(t.rows[i], w, t.columns)]
         IN IF \E i \in 1..Len(t.rows) : m[i] = "error"
            THEN XRes("Sql", tbls, files, 0)
            ELSE XRes("none",
                      Put(tbls, name,
                          [t EXCEPT !.rows =
                              [i \in 1..Len(t.rows) |->
                                  IF m[i] = "true" THEN ApplySet(t.rows[i], set, t.columns)
                                  ELSE t.rows[i]]]),
                      files, 0)

RECURSIVE DeleteLoopSkipping(_, _, _, _)
\* A removal loop that advances past the row that follows a removed one.
DeleteLoopSkipping(rows, i, w, columns) ==
    IF i > Len(rows) THEN [err |-> "none", rows |-> rows]
    ELSE LET m == EvaluateWhereClause(rows[i], w, columns)
         IN CASE m = "error" -> [err |-> "Sql", rows |-> rows]
              [] m = "true" -> DeleteLoopSkipping(RemoveAt(rows, i), i + 1, w, columns)
              [] OTHER -> DeleteLoopSkipping(rows, i + 1, w, columns)

RECURSIVE DeleteLoop(_, _, _, _)
\* while i < rows.len() { if evaluate_where_clause(..)? { remove(i) } else { i += 1 } }
\* on the rows of the table itself: [err, rows]
DeleteLoop(rows, i, w, columns) ==
    IF i > Len(rows) THEN [err |-> "none", rows |-> rows]
    ELSE LET m == EvaluateWhereClause(rows[i], w, columns)
         IN CASE m = "error" -> [err |-> "Sql", rows |-> rows]
              [] m = "true" -> DeleteLoop(RemoveAt(rows, i), i, w, columns)
              [] OTHER -> DeleteLoop(rows, i + 1, w, columns)

\* A DELETE whose absent WHERE selects no row.
ExecDeleteNeedsWhere(kind, tbls, files, name, w) ==
    IF name \notin DOMAIN tbls THEN XRes("Table", tbls, files, 0)
    ELSE IF w.kind = "None" THEN XRes("none", tbls, files, 0)
         ELSE LET r == DeleteLoop(tbls[name].rows, 1, w, tbls[name].columns)
              IN XRes(r.err, Put(tbls, name, [tbls[name] EXCEPT !.rows = r.rows]), files, 0)

\* SqlStatement::Delete
ExecDelete(kind, tbls, files, name, w) ==
    IF name \notin DOMAIN tbls THEN XRes("Table", tbls, files, 0)
    ELSE IF w.kind = "None"
         THEN XRes("none", Put(tbls, name, [tbls[name] EXCEPT !.rows = << >>]), files, 0)
         ELSE LET r == DeleteLoop(tbls[name].rows, 1, w, tbls[name].columns)
              IN XRes(r.err, Put(tbls, name, [tbls[name] EXCEPT !.rows = r.rows]), files, 0)

(***************************************************************************)
(* SELECT * output: the header and the cells handed to the formatter.      *)
(***************************************************************************)
\* i32 Display for the integers of the model.
Digit(d) ==
    CASE d = 0 -> "0" [] d = 1 -> "1" [] d = 2 -> "2" [] d = 3 -> "3" [] d = 4 -> "4"
      [] d = 5 -> "5" [] d = 6 -> "6" [] d = 7 -> "7" [] d = 8 -> "8" [] OTHER -> "9"

RECURSIVE DecimalString(_)
DecimalString(n) ==
    IF n < 0 THEN "-" \o DecimalString(0 - n)
    ELSE IF n < 10 THEN Digit(n)
    ELSE DecimalString(n \div 10) \o Digit(n % 10)

\* impl fmt::Display for DataType
Display(v) ==
    CASE v.tag = "Int" -> DecimalString(v.i)
      [] v.tag = "Varchar" -> v.s
      [] OTHER -> "NULL"

\* SqlStatement::Select with columns = ["*"], no WHERE, no ORDER BY:
\* display_columns and selected_rows.
SelectAll(t) ==
    [headers |-> [i \in 1..Len(t.columns) |-> t.columns[i].name],
     rows |-> [r \in 1..Len(t.rows) |->
                 [i \in 1..Len(t.rows[r]) |-> Display(t.rows[r][i])]]]

(***************************************************************************)
(* Inputs: the statements and store calls issued against the engine.       *)
(***************************************************************************)
\* Rows of single-row INSERT and of the store's insert_row / update_row.
InputRows ==
    { <<Int32(1), Varchar("a")>>, <<Int32(2), Varchar("a")>>, <<Int32(2), Null>>,
      <<Null, Varchar("a")>>, <<Int32(2), Varchar("abc")>>, <<Int32(1)>> }

\* Value tuples of multi-row and column-list INSERT.
InputTuples ==
    { <<Int32(1), Varchar("a")>>, <<Int32(2), Null>>, <<Int32(2), Varchar("abc")>> }

\* All lists of lo..hi pairwise different tuples.
TupleLists(lo, hi) ==
    UNION {{l \in [1..n -> InputTuples] : \A i, j \in 1..n : l[i] = l[j] => i = j} :
           n \in lo..hi}

\* Column lists of INSERT INTO t (...).
ColumnLists == { <<"id", "name">>, <<"name", "id">>, <<"id", "zz">> }

\* SET lists of UPDATE.
SetLists ==
    { << <<"id", Int32(1)>> >>, << <<"id", Null>> >>, << <<"id", Varchar("a")>> >>,
      << <<"name", Varchar("abc")>> >>, << <<"name", Null>> >>,
      << <<"zz", Int32(1)>> >>,
      << <<"id", Int32(2)>>, <<"name", Varchar("a")>> >> }

\* WHERE clauses of UPDATE and DELETE.
Wheres ==
    { Simple("id", "Eq", Int32(1)), Simple("id", "Gt", Int32(1)),
      Simple("name", "IsNull", Null), Simple("zz", "Eq", Int32(1)),
      Or(Simple("id", "Eq", Int32(2)), Simple("name", "Lt", Varchar("abc"))),
      And(Simple("id", "Ge", Int32(1)), Simple("name", "Eq", Varchar("a"))) }

(***************************************************************************)
(* State.                                                                  *)
(***************************************************************************)
VARIABLES
    storeKind,  \* "memory" (MemoryStorage) or "file" (FileStorage)
    tables,     \* the store's HashMap<String, Table>
    disk,       \* the files of <base_dir>/tables, by file stem
    last,       \* the call that produced this state and its outcome
    steps,      \* number of calls made so far
    run         \* the script run or shell session in progress, if any

vars == <<storeKind, tables, disk, last, steps, run>>

\* No script is being run.
NoRun == [entry |-> "none"]

\* The record of a call: its kind, target table, error kind ("none" on
\* success) and the number k of value tuples it inserted.  A multi-row
\* INSERT that stopped part-way (an error after k >= 1 tuples) also keeps
\* its column list and value tuples.  The catalog and files a CREATE TABLE
\* started from are kept in "before" by that statement and by a DROP TABLE
\* of the same name that directly follows it; "follows" names the statement
\* just before when it was that CREATE TABLE or a save.
Outcome(op, name, columns, rows, r, follows, before) ==
    [op |-> op, name |-> name,
     columns |-> IF r.err # "none" /\ r.k >= 1 THEN columns ELSE << >>,
     rows |-> IF r.err # "none" /\ r.k >= 1 THEN rows ELSE << >>,
     err |-> r.err, k |-> r.k, follows |-> follows, before |-> before]

NoBefore == [tables |-> NoTables, disk |-> NoFiles]

Follows == IF last.op = "Save" /\ last.err = "none" THEN "Save" ELSE "other"

\* The directories a directory store is opened on: a new one, and one left
\* by an earlier session, holding t (id INT PRIMARY KEY, name VARCHAR(2))
\* with the row (1, 'a').
InitialDirs ==
    { NoFiles,
      Put(NoFiles, "t",
          SerializeTable(
              [name |-> "t",
               columns |-> << Col("id", "Int", 0, TRUE, TRUE),
                              Col("name", "Varchar", 2, TRUE, FALSE) >>,
               rows |-> << <<Int32(1), Varchar("a")>> >>])) }

\* The state after Database::new.  MemoryStorage::new is an empty map;
\* FileStorage::new creates tables/ when missing and loads what it holds.
Init ==
    /\ storeKind \in {"memory", "file"}
    /\ disk \in (IF storeKind = "file" THEN InitialDirs ELSE {NoFiles})
    /\ tables = DatabaseNew(storeKind, disk)
    /\ last = Outcome("new", "", << >>, << >>, XRes("none", NoTables, NoFiles, 0),
                      "other", NoBefore)
    /\ steps = 0
    /\ run = NoRun

\* The new store state and the record of the call.
Becomes(op, name, columns, rows, r, follows, before) ==
    /\ tables' = r.tables
    /\ disk' = r.disk
    /\ last' = Outcome(op, name, columns, rows, r, follows, before)
    /\ steps' = steps + 1
    /\ UNCHANGED <<storeKind, run>>

(***************************************************************************)
(* Actions: one per statement kind and store call.                         *)
(***************************************************************************)
\* execute(CreateTable { name, columns })
CreateTable ==
    /\ steps < MaxSteps
    /\ \E name \in TableNames, columns \in Schemas :
        Becomes("CreateTable", name, << >>, << >>,
                ExecCreateTable(storeKind, tables, disk, name, columns),
                Follows, [tables |-> tables, disk |-> disk])

\* Database::create_table(name, columns)
DbCreateTable ==
    /\ steps < MaxSteps
    /\ \E name \in TableNames, columns \in Schemas :
        LET r == StorageCreateTable(storeKind, tables, disk, NewTable(name, columns))
        IN Becomes("create_table", name, << >>, << >>,
                   XRes(r.err, r.tables, r.disk, 0), Follows, NoBefore)

\* execute(DropTable { name })
DropTable ==
    /\ steps < MaxSteps
    /\ \E name \in TableNames :
        LET pair == last.op = "CreateTable" /\ last.err = "none" /\ last.name = name
        IN Becomes("DropTable", name, << >>, << >>,
                   ExecDropTable(storeKind, tables, disk, name),
                   IF pair THEN "CreateTable" ELSE Follows,
                   IF pair THEN last.before ELSE NoBefore)

\* execute(DropTables { names })
DropTables ==
    /\ steps < MaxSteps
    /\ \E names \in [1..2 -> TableNames] :
        Becomes("DropTables", "", << >>, << >>,
                ExecDropTables(storeKind, tables, disk, names), Follows, NoBefore)

\* execute(Insert { table, values })
Insert ==
    /\ steps < MaxSteps
    /\ \E name \in TableNames, values \in InputRows :
        Becomes("Insert", name, << >>, << >>,
                ExecInsert(storeKind, tables, disk, name, values), Follows, NoBefore)

\* execute(InsertMultiple { table, rows })
InsertMultiple ==
    /\ steps < MaxSteps
    /\ \E name \in TableNames, rows \in TupleLists(2, MaxTuples) :
        Becomes("InsertMultiple", name, << >>, rows,
                ExecInsertMultiple(storeKind, tables, disk, name, rows),
                Follows, NoBefore)

\* execute(InsertWithColumns { table, columns, rows })
InsertWithColumns ==
    /\ steps < MaxSteps
    /\ \E name \in TableNames, columns \in ColumnLists, rows \in TupleLists(1, MaxTuples) :
        Becomes("InsertWithColumns", name, columns, rows,
                ExecInsertWithColumns(storeKind, tables, disk, name, columns, rows),
                Follows, NoBefore)

\* execute(Update { table, set, where_clause })
Update ==
    /\ steps < MaxSteps
    /\ \E name \in TableNames, set \in SetLists, w \in Wheres \cup {NoWhere} :
        Becomes("Update", name, << >>, << >>,
                ExecUpdate(storeKind, tables, disk, name, set, w), Follows, NoBefore)

\* execute(Delete { table, where_clause })
Delete ==
    /\ steps < MaxSteps
    /\ \E name \in TableNames, w \in Wheres \cup {NoWhere} :
        Becomes("Delete", name, << >>, << >>,
                ExecDelete(storeKind, tables, disk, name, w), Follows, NoBefore)

\* Database::insert_row(table_name, row)
DbInsertRow ==
    /\ steps < MaxSteps
    /\ \E name \in TableNames, row \in InputRows :
        LET r == StorageInsertRow(storeKind, tables, disk, name, row)
        IN Becomes("insert_row", name, << >>, << >>,
                   XRes(r.err, r.tables, r.disk, IF r.err = "none" THEN 1 ELSE 0),
                   Follows, NoBefore)

\* Database::update_row(table_name, row_index, row)
DbUpdateRow ==
    /\ steps < MaxSteps
    /\ \E name \in TableNames, row_index \in 0..MaxIndex, row \in InputRows :
        LET r == StorageUpdateRow(storeKind, tables, disk, name, row_index, row)
        IN Becomes("update_row", name, << >>, << >>,
                   XRes(r.err, r.tables, r.disk, 0), Follows, NoBefore)

\* Database::delete_row(table_name, row_index)
DbDeleteRow ==
    /\ steps < MaxSteps
    /\ \E name \in TableNames, row_index \in 0..MaxIndex :
        LET r == StorageDeleteRow(storeKind, tables, disk, name, row_index)
        IN Becomes("delete_row", name, << >>, << >>,
                   XRes(r.err, r.tables, r.disk, 0), Follows, NoBefore)

\* Database::save
Save ==
    /\ steps < MaxSteps
    /\ Becomes("Save", "", << >>, << >>,
               XRes("none", tables, StorageSave(storeKind, tables, disk), 0),
               Follows, NoBefore)

\* Database::load
Load ==
    /\ steps < MaxSteps
    /\ Becomes("Load", "", << >>, << >>,
               XRes("none", StorageLoad(storeKind, tables, disk), disk, 0),
               Follows, NoBefore)

\* The database is dropped and Database::new is called again with the same
\* storage type and path.
Reopen ==
    /\ steps < MaxSteps
    /\ Becomes("Reopen", "", << >>, << >>,
               XRes("none", DatabaseNew(storeKind, disk), disk, 0),
               Follows, NoBefore)

Next ==
    \/ CreateTable
    \/ DbCreateTable
    \/ DropTable
    \/ DropTables
    \/ Insert
    \/ InsertMultiple
    \/ InsertWithColumns
    \/ Update
    \/ Delete
    \/ DbInsertRow
    \/ DbUpdateRow
    \/ DbDeleteRow
    \/ Save
    \/ Load
    \/ Reopen

Spec == Init /\ [][Next]_vars

(***************************************************************************)
(* Properties.                                                             *)
(***************************************************************************)
\* Index of the primary-key column of a column list, 0 when there is none.
PrimaryKeyIndex(columns) ==
    LET pks == {i \in 1..Len(columns) : columns[i].primary_key}
    IN IF pks = {} THEN 0 ELSE Min(pks)

SqlInserts == {"Insert", "InsertMultiple", "InsertWithColumns"}

ConstraintErrors == {"TypeMismatch", "NullValue", "PrimaryKeyViolation"}

\* C1: in every table with a primary-key column, no two rows hold the same
\* non-NULL value in that column.
C1_PrimaryKeyUnique ==
    \A n \in DOMAIN tables :
        LET t == tables[n]
            pk == PrimaryKeyIndex(t.columns)
        IN pk # 0 =>
              \A a, b \in 1..Len(t.rows) :
                  (a # b /\ t.rows[a][pk].tag # "Null") => t.rows[a][pk] # t.rows[b][pk]

\* C2: no row holds NULL in a column declared NOT NULL or in the
\* primary-key column.
C2_NoNullInNonNullable ==
    \A n \in DOMAIN tables :
        \A r \in 1..Len(tables[n].rows), i \in 1..Len(tables[n].columns) :
            (~tables[n].columns[i].nullable \/ tables[n].columns[i].primary_key)
                => tables[n].rows[r][i].tag # "Null"

\* C3: every non-NULL cell has the variant of its column's type, and every
\* text cell of a VARCHAR(n) column has length at most n.
C3_CellsMatchColumnType ==
    \A n \in DOMAIN tables :
        \A r \in 1..Len(tables[n].rows), i \in 1..Len(tables[n].columns) :
            LET v == tables[n].rows[r][i]
                c == tables[n].columns[i]
            IN v.tag # "Null" =>
                  /\ v.tag = c.ty
                  /\ (c.ty = "Varchar" => Len(v.s) <= c.len)

\* C4: every row of every table has exactly as many cells as the table has
\* columns.
C4_RowArity ==
    \A n \in DOMAIN tables :
        \A r \in 1..Len(tables[n].rows) : Len(tables[n].rows[r]) = Len(tables[n].columns)

\* A store call accepted a row into a table that already held another.
C4_Witness ==
    /\ last.op \in {"insert_row", "update_row", "Insert"}
    /\ last.err = "none"
    /\ Len(tables[last.name].rows) >= 2
    /\ Len(tables[last.name].columns) = 2

\* C5: with the directory store, right after every successful CREATE TABLE,
\* DROP TABLE, INSERT, UPDATE and DELETE statement the file of the affected
\* table holds the in-memory table (no file, after DROP TABLE).
C5_StatementIsPersisted ==
    (/\ storeKind = "file"
     /\ last.op \in SqlInserts \cup {"CreateTable", "DropTable", "Update", "Delete"}
     /\ last.err = "none")
       => IF last.name \in DOMAIN tables
          THEN /\ last.name \in DOMAIN disk
               /\ DeserializeTable(disk[last.name]) = tables[last.name]
          ELSE last.name \notin DOMAIN disk

\* C6 as stated: an INSERT statement of any form that fails with a type,
\* non-null or primary-key violation leaves the number of rows of its
\* table as it was.
C6_FailedInsertKeepsRowCount ==
    [][(last'.op \in SqlInserts /\ last'.err \in ConstraintErrors)
          => Len(tables'[last'.name].rows) = Len(tables[last'.name].rows)]_vars

\* C6 amended: an INSERT statement that fails with a type, non-null or
\* primary-key violation adds exactly the value tuples that precede the
\* failing one, fewer than the statement lists; a single-row INSERT adds
\* none.
C6_FailedInsertAddsOnlyEarlierTuples ==
    [][(last'.op \in SqlInserts /\ last'.err \in ConstraintErrors)
          => /\ Len(tables'[last'.name].rows) = Len(tables[last'.name].rows) + last'.k
             /\ (last'.op = "Insert" => last'.k = 0)
             /\ (last'.k >= 1 => last'.k < Len(last'.rows))]_vars

\* A multi-row INSERT failed on a primary-key violation at its second tuple.
C6_Witness ==
    /\ last.op = "InsertMultiple"
    /\ last.err = "PrimaryKeyViolation"
    /\ last.k = 1
    /\ Len(tables[last.name].rows) >= 1

C8_CreateExistingTableFails ==
    [][(last'.op \in {"CreateTable", "create_table"} /\ last'.name \in DOMAIN tables)
          => (last'.err = "Table" /\ tables' = tables)]_vars

\* A CREATE TABLE named an existing table that holds rows, while another
\* table exists.
C8_Witness ==
    /\ last.op = "CreateTable"
    /\ last.err = "Table"
    /\ last.name \in DOMAIN tables
    /\ Len(tables[last.name].rows) >= 1
    /\ DOMAIN tables = TableNames

\* C9: for the directory store, save leaves the tables as they are and a
\* fresh engine opened on the directory right after it holds the same
\* tables, columns and rows in the same order, so that SELECT * on each
\* table gives the same header and cells.
C9_SaveThenReopenRoundTrip ==
    [][/\ (last'.op = "Save" /\ storeKind = "file") => tables' = tables
       /\ (storeKind = "file" /\ last.op = "Save" /\ last.err = "none"
              /\ last'.op = "Reopen")
             => /\ tables' = tables
                /\ \A n \in DOMAIN tables : SelectAll(tables'[n]) = SelectAll(tables[n])]_vars

\* A directory store was reopened right after a save and holds a table with
\* a row that has a NULL cell.
C9_Witness ==
    /\ storeKind = "file"
    /\ last.op = "Reopen"
    /\ last.follows = "Save"
    /\ \E n \in DOMAIN tables :
          \E r \in 1..Len(tables[n].rows), i \in 1..Len(tables[n].columns) :
              tables[n].rows[r][i].tag = "Null"

\* C10: after CREATE TABLE t, for t not in the catalog, directly followed
\* by DROP TABLE t, the catalog is as it was before the pair and, with the
\* directory store, so is the set of table files.
C10_CreateThenDropRestores ==
    (last.op = "DropTable" /\ last.follows = "CreateTable")
       => /\ last.err = "none"
          /\ tables = last.before.tables
          /\ (storeKind = "file" => DOMAIN disk = DOMAIN last.before.disk)

\* With the directory store, a table was created and dropped while another
\* table existed.
C10_Witness ==
    /\ storeKind = "file"
    /\ last.op = "DropTable"
    /\ last.follows = "CreateTable"
    /\ DOMAIN tables # {}

(***************************************************************************)
(* One statement on a prepared database.  The database is prepared by a    *)
(* fixed script run from an empty store; then a single statement (or store *)
(* call) is executed and recorded in full together with its result.        *)
(***************************************************************************)
\* SqlStatement values.
StCreateTable(name, columns) == [stmt |-> "CreateTable", name |-> name, columns |-> columns]
StDropTable(name) == [stmt |-> "DropTable", name |-> name]
StDropTables(names) == [stmt |-> "DropTables", names |-> names]
StInsert(table, values) == [stmt |-> "Insert", table |-> table, values |-> values]
StInsertMultiple(table, rows) == [stmt |-> "InsertMultiple", table |-> table, rows |-> rows]
StInsertWithColumns(table, columns, rows) ==
    [stmt |-> "InsertWithColumns", table |-> table, columns |-> columns, rows |-> rows]
StUpdate(table, set, w) ==
    [stmt |-> "Update", table |-> table, set |-> set, where_clause |-> w]
StDelete(table, w) == [stmt |-> "Delete", table |-> table, where_clause |-> w]

\* SqlExecutor::execute: match statement { ... }
Execute(kind, tbls, files, st) ==
    CASE st.stmt = "CreateTable" -> ExecCreateTable(kind, tbls, files, st.name, st.columns)
      [] st.stmt = "DropTable" -> ExecDropTable(kind, tbls, files, st.name)
      [] st.stmt = "DropTables" -> ExecDropTables(kind, tbls, files, st.names)
      [] st.stmt = "Insert" -> ExecInsert(kind, tbls, files, st.table, st.values)
      [] st.stmt = "InsertMultiple" -> ExecInsertMultiple(kind, tbls, files, st.table, st.rows)
      [] st.stmt = "InsertWithColumns" ->
            ExecInsertWithColumns(kind, tbls, files, st.table, st.columns, st.rows)
      [] st.stmt = "Update" ->
            ExecUpdate(kind, tbls, files, st.table, st.set, st.where_clause)
      [] OTHER -> ExecDelete(kind, tbls, files, st.table, st.where_clause)

RECURSIVE RunStatements(_, _, _, _)
\* process_sql_statements: every statement is executed in turn; an error is
\* printed and the next statement runs on what the failed one left.
RunStatements(kind, tbls, files, statements) ==
    IF statements = << >> THEN [tables |-> tbls, disk |-> files]
    ELSE LET r == Execute(kind, tbls, files, Head(statements))
         IN RunStatements(kind, r.tables, r.disk, Tail(statements))

\* The scripts that prepare the database:
\*   nothing;
\*   t (id INT PRIMARY KEY, name VARCHAR(2) NOT NULL) with (1,'a'), (2,'a');
\*   t (id INT PRIMARY KEY, name VARCHAR(2)) with (1,'a'), (2,NULL) and
\*   u (v INT NOT NULL) with (1);
\*   the same followed by UPDATE t SET id = 1 WHERE id > 1.
PreparedScripts ==
    LET one == << StCreateTable("t", << Col("id", "Int", 0, TRUE, TRUE),
                                        Col("name", "Varchar", 2, FALSE, FALSE) >>),
                  StInsert("t", <<Int32(1), Varchar("a")>>),
                  StInsert("t", <<Int32(2), Varchar("a")>>) >>
        two == << StCreateTable("t", << Col("id", "Int", 0, TRUE, TRUE),
                                        Col("name", "Varchar", 2, TRUE, FALSE) >>),
                  StCreateTable("u", << Col("v", "Int", 0, FALSE, FALSE) >>),
                  StInsertMultiple("t", << <<Int32(1), Varchar("a")>>, <<Int32(2), Null>> >>),
                  StInsert("u", <<Int32(1)>>) >>
    IN { << >>, one, two,
         two \o << StUpdate("t", << <<"id", Int32(1)>> >>, Simple("id", "Gt", Int32(1))) >> }

\* Database::new on a new directory (or in memory), then the preparing script.
StmtInit ==
    /\ storeKind \in {"memory", "file"}
    /\ \E script \in PreparedScripts :
          LET r == RunStatements(storeKind, DatabaseNew(storeKind, NoFiles), NoFiles, script)
          IN /\ tables = r.tables
             /\ disk = r.disk
    /\ last = [op |-> "new"]
    /\ steps = 0
    /\ run = NoRun

\* The statement st is executed and recorded with its result.
Executes(st) ==
    /\ \E r \in {Execute(storeKind, tables, disk, st)} :
          /\ tables' = r.tables
          /\ disk' = r.disk
          /\ last' = [op |-> "execute", stmt |-> st, err |-> r.err, k |-> r.k]
    /\ steps' = steps + 1
    /\ UNCHANGED <<storeKind, run>>

\* Name lists of DROP TABLE a, b ("x" is never a table).
DropLists == UNION {[1..n -> TableNames \cup {"x"}] : n \in 1..2}

\* Column lists and value tuples of INSERT INTO t (...) VALUES (...), (...):
\* all columns in both orders (values given in the table's order and in the
\* list's order), one column only, an unknown column, and a column named
\* twice.
ColumnInserts ==
    {[columns |-> c, rows |-> r] : c \in ColumnLists \cup {<<"id", "id">>},
                                   r \in TupleLists(1, MaxTuples)}
    \cup {[columns |-> c, rows |-> << <<v>> >>] :
             c \in {<<"id">>, <<"name">>, <<"v">>},
             v \in {Int32(2), Varchar("a")}}
    \cup {[columns |-> <<"name", "id">>, rows |-> << <<Varchar("a"), Int32(3)>> >>],
          [columns |-> <<"name", "id">>,
           rows |-> << <<Varchar("a"), Int32(3)>>, <<Null, Int32(4)>> >>],
          [columns |-> <<"id", "id">>, rows |-> << <<Int32(1), Int32(3)>> >>],
          [columns |-> <<"id", "id">>, rows |-> << <<Int32(3), Int32(3)>> >>]}

\* WHERE clauses whose right operand fails on some or all rows (an unknown
\* column; an ordering comparison with NULL or between text and a number).
ShortCircuitWheres ==
    LET bad == {Simple("zz", "Eq", Int32(1)), Simple("name", "Lt", Varchar("abc")),
                Simple("name", "Gt", Int32(1))}
        first == {Simple("id", "Eq", Int32(1)), Simple("id", "Gt", Int32(2)),
                  Simple("id", "Ge", Int32(1)), Simple("name", "IsNull", Null)}
    IN {And(a, b) : a \in first, b \in bad} \cup {Or(a, b) : a \in first, b \in bad}
       \cup {And(b, a) : a \in first, b \in bad} \cup {Or(b, a) : a \in first, b \in bad}

(***************************************************************************)
(* UPDATE statements as token lists (sql/lexer.rs Token) and their parser  *)
(* (sql/parser.rs parse_update, parse_where_clause).                       *)
(***************************************************************************)
\* A token: a keyword or separator, Identifier(s), String(s) or Number(i).
Token(tok, str, n) == [tok |-> tok, s |-> str, i |-> n]
Keyword(tok) == Token(tok, "", 0)
Identifier(name) == Token("Identifier", name, 0)

\* self.tokens.get(self.position): positions start at 1 here.
NoToken == Token("None", "", 0)
Peek(tokens, pos) == IF pos \in 1..Len(tokens) THEN tokens[pos] ELSE NoToken

\* The token of a literal value.
ValueToken(v) ==
    CASE v.tag = "Int" -> Token("Number", "", v.i)
      [] v.tag = "Varchar" -> Token("String", v.s, 0)
      [] OTHER -> Keyword("Null")

RECURSIVE WhereTokens(_)
\* The tokens of a condition.
WhereTokens(w) ==
    CASE w.kind = "Simple" ->
            IF w.operator = "IsNull"
            THEN << Identifier(w.column), Keyword("Is"), Keyword("Null") >>
            ELSE IF w.operator = "IsNotNull"
            THEN << Identifier(w.column), Keyword("Is"), Identifier("NOT"), Keyword("Null") >>
            ELSE << Identifier(w.column), Keyword(w.operator), ValueToken(w.value) >>
      [] w.kind = "And" -> WhereTokens(w.left) \o << Keyword("And") >> \o WhereTokens(w.right)
      [] w.kind = "Or" -> WhereTokens(w.left) \o << Keyword("Or") >> \o WhereTokens(w.right)
      [] OTHER -> << >>

RECURSIVE SetTokens(_)
\* The tokens of `c1 = v1, c2 = v2, ...`.
SetTokens(set) ==
    IF set = << >> THEN << >>
    ELSE << Identifier(Head(set)[1]), Keyword("Eq"), ValueToken(Head(set)[2]) >>
         \o (IF Tail(set) = << >> THEN << >> ELSE << Keyword("Comma") >>)
         \o SetTokens(Tail(set))

\* The tokens of UPDATE table SET set [WHERE w] [;], or of the same text
\* without the word SET.
UpdateTokens(table, set, w, keyword_set, semicolon) ==
    << Keyword("Update"), Identifier(table) >>
    \o (IF keyword_set THEN << Keyword("Set") >> ELSE << >>)
    \o SetTokens(set)
    \o (IF w = NoWhere THEN << >> ELSE << Keyword("Where") >> \o WhereTokens(w))
    \o (IF semicolon THEN << Keyword("Semicolon") >> ELSE << >>)

\* Err(DbError::SqlError(..)) of a parser function.
ParseError == [err |-> "Sql", pos |-> 0, value |-> Null, w |-> NoWhere, set |-> << >>]
Parsed(pos, value, w, set) == [err |-> "none", pos |-> pos, value |-> value, w |-> w, set |-> set]

\* parse_value
ParseValue(tokens, pos) ==
    LET tk == Peek(tokens, pos)
    IN CASE tk.tok = "Number" -> Parsed(pos + 1, Int32(tk.i), NoWhere, << >>)
         [] tk.tok = "String" -> Parsed(pos + 1, Varchar(tk.s), NoWhere, << >>)
         [] tk.tok = "Null" -> Parsed(pos + 1, Null, NoWhere, << >>)
         [] tk.tok = "Identifier" /\ tk.s \in {"NULL", "null"} ->
                Parsed(pos + 1, Null, NoWhere, << >>)
         [] OTHER -> ParseError

RECURSIVE ParseOrCondition(_, _)
RECURSIVE ParseAndCondition(_, _)
RECURSIVE ParseCondition(_, _)
\* parse_condition
ParseCondition(tokens, pos) ==
    IF Peek(tokens, pos).tok = "LParen"
    THEN LET c == ParseOrCondition(tokens, pos + 1)
         IN IF c.err # "none" THEN c
            ELSE IF Peek(tokens, c.pos).tok = "RParen"
                 THEN Parsed(c.pos + 1, Null, c.w, << >>)
                 ELSE ParseError
    ELSE IF Peek(tokens, pos).tok # "Identifier" THEN ParseError
    ELSE LET column == Peek(tokens, pos).s
             p1 == pos + 1
         IN IF Peek(tokens, p1).tok = "Is"
            THEN LET is_not == /\ Peek(tokens, p1 + 1).tok = "Identifier"
                               /\ Peek(tokens, p1 + 1).s \in {"NOT", "not"}
                     p2 == IF is_not THEN p1 + 2 ELSE p1 + 1
                 IN IF Peek(tokens, p2).tok = "Null"
                    THEN Parsed(p2 + 1, Null,
                                Simple(column, IF is_not THEN "IsNotNull" ELSE "IsNull", Null),
                                << >>)
                    ELSE ParseError
            ELSE IF Peek(tokens, p1).tok \in {"Eq", "Ne", "Gt", "Lt", "Ge", "Le"}
                 THEN LET v == ParseValue(tokens, p1 + 1)
                      IN IF v.err # "none" THEN ParseError
                         ELSE Parsed(v.pos, Null,
                                     Simple(column, Peek(tokens, p1).tok, v.value), << >>)
                 ELSE ParseError

\* A grammar in which the right operand of AND is a whole OR condition.
ParseAndConditionLoose(tokens, pos) ==
    LET left == ParseCondition(tokens, pos)
    IN IF left.err # "none" THEN left
       ELSE IF Peek(tokens, left.pos).tok = "And"
            THEN LET right == ParseOrCondition(tokens, left.pos + 1)
                 IN IF right.err # "none" THEN right
                    ELSE Parsed(right.pos, Null, And(left.w, right.w), << >>)
            ELSE left

\* parse_and_condition
ParseAndCondition(tokens, pos) ==
    LET left == ParseCondition(tokens, pos)
    IN IF left.err # "none" THEN left
       ELSE IF Peek(tokens, left.pos).tok = "And"
            THEN LET right == ParseAndCondition(tokens, left.pos + 1)
                 IN IF right.err # "none" THEN right
                    ELSE Parsed(right.pos, Null, And(left.w, right.w), << >>)
            ELSE left

\* parse_or_condition
ParseOrCondition(tokens, pos) ==
    LET left == ParseAndCondition(tokens, pos)
    IN IF left.err # "none" THEN left
       ELSE IF Peek(tokens, left.pos).tok = "Or"
            THEN LET right == ParseOrCondition(tokens, left.pos + 1)
                 IN IF right.err # "none" THEN right
                    ELSE Parsed(right.pos, Null, Or(left.w, right.w), << >>)
            ELSE left

\* parse_where_clause
ParseWhereClause(tokens, pos) ==
    IF Peek(tokens, pos).tok = "Where" THEN ParseOrCondition(tokens, pos + 1)
    ELSE ParseError

RECURSIVE ParseAssignments(_, _, _)
\* The loop of parse_update: column = value, then a comma (go on) or WHERE
\* (leave the loop); any other token, or the end of the tokens, is an error.
ParseAssignments(tokens, pos, set) ==
    IF Peek(tokens, pos).tok # "Identifier" THEN ParseError
    ELSE IF Peek(tokens, pos + 1).tok # "Eq" THEN ParseError
    ELSE LET v == ParseValue(tokens, pos + 2)
         IN IF v.err # "none" THEN ParseError
            ELSE LET set2 == Append(set, << Peek(tokens, pos).s, v.value >>)
                 IN CASE Peek(tokens, v.pos).tok = "Comma" ->
                            ParseAssignments(tokens, v.pos + 1, set2)
                      [] Peek(tokens, v.pos).tok = "Where" ->
                            Parsed(v.pos, Null, NoWhere, set2)
                      [] OTHER -> ParseError

\* No statement: the parser returned Err.
NoStatement == [stmt |-> "None"]

\* parse_update: [err, statement]
ParseUpdate(tokens) ==
    IF Peek(tokens, 1).tok # "Update" THEN [err |-> "Sql", statement |-> NoStatement]
    ELSE IF Peek(tokens, 2).tok # "Identifier" THEN [err |-> "Sql", statement |-> NoStatement]
    ELSE IF Peek(tokens, 3).tok # "Set" THEN [err |-> "Sql", statement |-> NoStatement]
    ELSE LET a == ParseAssignments(tokens, 4, << >>)
         IN IF a.err # "none" THEN [err |-> "Sql", statement |-> NoStatement]
            ELSE IF Peek(tokens, a.pos).tok = "Where"
                 THEN LET c == ParseWhereClause(tokens, a.pos)
                      IN IF c.err # "none" THEN [err |-> "Sql", statement |-> NoStatement]
                         ELSE [err |-> "none",
                               statement |-> StUpdate(Peek(tokens, 2).s, a.set, c.w)]
                 ELSE [err |-> "none",
                       statement |-> StUpdate(Peek(tokens, 2).s, a.set, NoWhere)]

\* Database::execute_sql on the text of an UPDATE statement: parse, then
\* execute what the parser returned.  The call is recorded with the
\* statement the text was written from.
StmtUpdateText ==
    /\ steps = 0
    /\ \E table \in TableNames, set \in SetLists, w \in Wheres \cup {NoWhere},
          keyword_set \in BOOLEAN, semicolon \in BOOLEAN :
          \E tokens \in {UpdateTokens(table, set, w, keyword_set, semicolon)} :
          \E p \in {ParseUpdate(tokens)} :
          \E r \in (IF p.err # "none" THEN {XRes(p.err, tables, disk, 0)}
                    ELSE {Execute(storeKind, tables, disk, p.statement)}) :
             /\ tables' = r.tables
             /\ disk' = r.disk
             /\ last' = [op |-> "execute_sql", text |-> StUpdate(table, set, w),
                         well_formed |-> keyword_set, tokens |-> tokens,
                         parsed |-> (p.err = "none"), stmt |-> p.statement,
                         err |-> r.err, k |-> r.k]
    /\ steps' = steps + 1
    /\ UNCHANGED <<storeKind, run>>

StmtCreateTable ==
    /\ steps = 0
    /\ \E name \in TableNames, columns \in Schemas : Executes(StCreateTable(name, columns))

StmtDropTable ==
    /\ steps = 0
    /\ \E name \in TableNames : Executes(StDropTable(name))

StmtDropTables ==
    /\ steps = 0
    /\ \E names \in DropLists : Executes(StDropTables(names))

StmtInsert ==
    /\ steps = 0
    /\ \E table \in TableNames, values \in InputRows : Executes(StInsert(table, values))

StmtInsertMultiple ==
    /\ steps = 0
    /\ \E table \in TableNames, rows \in TupleLists(2, MaxTuples) :
           Executes(StInsertMultiple(table, rows))

StmtInsertWithColumns ==
    /\ steps = 0
    /\ \E table \in TableNames, ci \in ColumnInserts :
           Executes(StInsertWithColumns(table, ci.columns, ci.rows))

StmtUpdate ==
    /\ steps = 0
    /\ \E table \in TableNames, set \in SetLists,
          w \in Wheres \cup ShortCircuitWheres \cup {NoWhere} :
           Executes(StUpdate(table, set, w))

StmtDelete ==
    /\ steps = 0
    /\ \E table \in TableNames, w \in Wheres \cup ShortCircuitWheres \cup {NoWhere} :
           Executes(StDelete(table, w))

\* Database::update_row(table_name, row_index, row), recorded with its
\* arguments.
CallUpdateRow ==
    /\ steps = 0
    /\ \E name \in TableNames, row_index \in 0..MaxIndex, row \in InputRows :
          \E r \in {StorageUpdateRow(storeKind, tables, disk, name, row_index, row)} :
              /\ tables' = r.tables
              /\ disk' = r.disk
              /\ last' = [op |-> "update_row", name |-> name, row_index |-> row_index,
                          row |-> row, err |-> r.err]
    /\ steps' = steps + 1
    /\ UNCHANGED <<storeKind, run>>

StmtNext ==
    \/ StmtCreateTable
    \/ StmtDropTable
    \/ StmtDropTables
    \/ StmtInsert
    \/ StmtInsertMultiple
    \/ StmtInsertWithColumns
    \/ StmtUpdate
    \/ StmtDelete
    \/ StmtUpdateText
    \/ CallUpdateRow

StmtSpec == StmtInit /\ [][StmtNext]_vars

\* C11: DELETE FROM t without WHERE, for a table t of the catalog, succeeds,
\* leaves t with no rows and its columns as they were, and leaves every
\* other table as it was.
C11_DeleteAllEmptiesOnlyThatTable ==
    [][(/\ last'.op = "execute"
        /\ last'.stmt.stmt = "Delete"
        /\ last'.stmt.where_clause = NoWhere
        /\ last'.stmt.table \in DOMAIN tables)
          => /\ last'.err = "none"
             /\ DOMAIN tables' = DOMAIN tables
             /\ tables'[last'.stmt.table].rows = << >>
             /\ tables'[last'.stmt.table].columns = tables[last'.stmt.table].columns
             /\ \A n \in DOMAIN tables : n # last'.stmt.table => tables'[n] = tables[n]]_vars

\* DELETE FROM t without WHERE ran on a table with two rows while another
\* table with a row existed.
C11_Witness ==
    /\ last.op = "execute"
    /\ last.stmt.stmt = "Delete"
    /\ last.stmt.where_clause = NoWhere
    /\ last.err = "none"
    /\ DOMAIN tables = {"t", "u"}
    /\ last.stmt.table = "t"
    /\ Len(tables["u"].rows) = 1

\* The row invariants for the row put at position i (from 1) of t: arity,
\* type and length, nullability, and a non-NULL primary key that no other
\* row of t holds.
RowFits(t, i, row) ==
    /\ Len(row) = Len(t.columns)
    /\ \A c \in 1..Len(t.columns) :
          /\ MatchesColumnType(row[c], t.columns[c])
          /\ (~t.columns[c].nullable \/ t.columns[c].primary_key) => row[c].tag # "Null"
    /\ LET pk == PrimaryKeyIndex(t.columns)
       IN pk # 0 => \A j \in 1..Len(t.rows) : j # i => t.rows[j][pk] # row[pk]

\* C12: update_row(name, i, row) succeeds and replaces row i when the table
\* exists, i is a row index and the row fits at i; otherwise it fails and
\* the tables are as they were.
C12_UpdateRowReplacesIffValid ==
    [][last'.op = "update_row"
          => LET n == last'.name
                 i == last'.row_index + 1
             IN IF /\ n \in DOMAIN tables
                   /\ i <= Len(tables[n].rows)
                   /\ RowFits(tables[n], i, last'.row)
                THEN /\ last'.err = "none"
                     /\ tables' = Put(tables, n, [tables[n] EXCEPT !.rows[i] = last'.row])
                ELSE /\ last'.err # "none"
                     /\ tables' = tables]_vars

\* C13: when on every row of the table the left operand of AND is false
\* (of OR, true) and the right operand fails on some row, an UPDATE or
\* DELETE with that WHERE succeeds; with AND it selects no row, with OR it
\* selects every row.
C13_ShortCircuit ==
    [][(/\ last'.op = "execute"
        /\ last'.stmt.stmt \in {"Update", "Delete"}
        /\ last'.stmt.table \in DOMAIN tables
        /\ last'.stmt.where_clause.kind \in {"And", "Or"}
        /\ LET t == tables[last'.stmt.table]
               w == last'.stmt.where_clause
           IN /\ t.rows # << >>
              /\ \A r \in 1..Len(t.rows) :
                    EvaluateWhereClause(t.rows[r], w.left, t.columns)
                        = (IF w.kind = "And" THEN "false" ELSE "true")
              /\ \E r \in 1..Len(t.rows) :
                    EvaluateWhereClause(t.rows[r], w.right, t.columns) = "error")
          => LET n == last'.stmt.table
                 t == tables[n]
             IN /\ last'.err = "none"
                /\ last'.stmt.where_clause.kind = "And" => tables' = tables
                /\ (last'.stmt.where_clause.kind = "Or" /\ last'.stmt.stmt = "Delete")
                      => tables' = Put(tables, n, [t EXCEPT !.rows = << >>])
                /\ (last'.stmt.where_clause.kind = "Or" /\ last'.stmt.stmt = "Update")
                      => tables' = Put(tables, n,
                             [t EXCEPT !.rows =
                                 [r \in 1..Len(t.rows) |->
                                     ApplySet(t.rows[r], last'.stmt.set, t.columns)]])]_vars

\* A DELETE ... WHERE A AND B succeeded and left a row on which A is false
\* and B fails.
C13_Witness ==
    /\ last.op = "execute"
    /\ last.stmt.stmt = "Delete"
    /\ last.err = "none"
    /\ last.stmt.where_clause.kind = "And"
    /\ last.stmt.table \in DOMAIN tables
    /\ \E r \in 1..Len(tables[last.stmt.table].rows) :
          LET t == tables[last.stmt.table]
          IN /\ EvaluateWhereClause(t.rows[r], last.stmt.where_clause.left, t.columns) = "false"
             /\ EvaluateWhereClause(t.rows[r], last.stmt.where_clause.right, t.columns) = "error"

\* C14: DROP TABLE with a list of names succeeds whatever the names are;
\* afterwards exactly the listed names are gone from the catalog (and, with
\* the directory store, their files), also when a name listed before them
\* is not a table, and every other table is as it was.
C14_DropTablesDropsEveryExistingName ==
    [][(last'.op = "execute" /\ last'.stmt.stmt = "DropTables")
          => LET listed == {last'.stmt.names[i] : i \in 1..Len(last'.stmt.names)}
             IN /\ last'.err = "none"
                /\ DOMAIN tables' = (DOMAIN tables) \ listed
                /\ \A n \in DOMAIN tables' : tables'[n] = tables[n]
                /\ storeKind = "file" => DOMAIN disk' = (DOMAIN disk) \ listed]_vars

\* DROP TABLE x, t ran on a catalog holding t and u, x being no table.
C14_Witness ==
    /\ last.op = "execute"
    /\ last.stmt.stmt = "DropTables"
    /\ last.stmt.names = <<"x", "t">>
    /\ last.err = "none"
    /\ DOMAIN tables = {"u"}
    /\ storeKind = "file"

(***************************************************************************)
(* Script runs: execute_sql_with_path, called by run_simple_db in file     *)
(* mode (directory store, stop on error) and by execute_sql (memory store, *)
(* no stop on error).                                                      *)
(***************************************************************************)
\* SELECT * FROM table [WHERE w]
StSelect(table, w) ==
    [stmt |-> "Select", columns |-> <<"*">>, table |-> table, where_clause |-> w]

\* A statement text the parser rejects.
SyntaxError == [stmt |-> "SyntaxError"]

\* SqlStatement::Select with columns = ["*"] and no ORDER BY: has_output
\* is set when the selected rows are not empty.
ExecSelect(kind, tbls, files, name, w) ==
    IF name \notin DOMAIN tbls
    THEN [err |-> "Table", tables |-> tbls, disk |-> files, k |-> 0, has_output |-> FALSE]
    ELSE LET t == tbls[name]
             m == [i \in 1..Len(t.rows) |-> Matches(t.rows[i], w, t.columns)]
         IN IF \E i \in 1..Len(t.rows) : m[i] = "error"
            THEN [err |-> "Sql", tables |-> tbls, disk |-> files, k |-> 0,
                  has_output |-> FALSE]
            ELSE [err |-> "none", tables |-> tbls, disk |-> files, k |-> 0,
                  has_output |-> \E i \in 1..Len(t.rows) : m[i] = "true"]

\* Database::execute_sql_with_output: parse, execute, executor.has_output().
ExecuteSqlWithOutput(kind, tbls, files, st) ==
    CASE st.stmt = "SyntaxError" ->
            [err |-> "Sql", tables |-> tbls, disk |-> files, k |-> 0, has_output |-> FALSE]
      [] st.stmt = "Select" -> ExecSelect(kind, tbls, files, st.table, st.where_clause)
      [] OTHER ->
            LET r == Execute(kind, tbls, files, st)
            IN [err |-> r.err, tables |-> r.tables, disk |-> r.disk, k |-> r.k,
                has_output |-> FALSE]

\* One statement of a script: whether its text starts with SELECT, and what
\* the parser makes of it.
Item(select, st) == [select |-> select, statement |-> st]

\* The statements scripts are made of.
ScriptItems ==
    { Item(FALSE, StCreateTable("t", << Col("id", "Int", 0, TRUE, TRUE),
                                        Col("name", "Varchar", 2, TRUE, FALSE) >>)),
      Item(FALSE, StInsert("t", <<Int32(1), Varchar("a")>>)),
      Item(TRUE, StSelect("t", NoWhere)),
      Item(TRUE, StSelect("t", Simple("id", "Gt", Int32(1)))),
      Item(TRUE, StSelect("u", NoWhere)),
      Item(FALSE, SyntaxError),
      Item(FALSE, StDelete("t", NoWhere)) }

Scripts == UNION {[1..n -> ScriptItems] : n \in 1..MaxStatements}

\* The locals of execute_sql_with_path at its start.
StartRun(entry, statements) ==
    [entry |-> entry, stop_on_error |-> (entry = "run_simple_db"),
     statements |-> statements, pc |-> 1, success |-> TRUE,
     last_had_output |-> FALSE, has_executed_select |-> FALSE,
     has_table_output |-> FALSE, message |-> FALSE, returned |-> "no",
     exited |-> FALSE, status |-> 0]

\* The loop body after db.execute_sql_with_output returned r, but with the
\* early return on stop_on_error left out.
AfterStatementNoStop(r) ==
    [run EXCEPT
        !.pc = @ + 1,
        !.has_executed_select = @ \/ run.statements[run.pc].select,
        !.last_had_output = (r.err = "none" /\ r.has_output),
        !.has_table_output = @ \/ (r.err = "none" /\ r.has_output),
        !.success = @ /\ r.err = "none"]

\* The loop body of execute_sql_with_path after db.execute_sql_with_output
\* returned r for statement pc.
AfterStatement(r) ==
    [run EXCEPT
        !.pc = @ + 1,
        !.has_executed_select = @ \/ run.statements[run.pc].select,
        !.last_had_output = (r.err = "none" /\ r.has_output),
        !.has_table_output = @ \/ (r.err = "none" /\ r.has_output),
        !.success = @ /\ r.err = "none",
        !.returned = IF r.err # "none" /\ run.stop_on_error THEN "false" ELSE @]

\* A closing message printed whenever no table was printed.
NoResultsMessageWithoutSelect == ~run.has_table_output

\* if has_executed_select && !has_table_output { println!(...) }
NoResultsMessage == run.has_executed_select /\ ~run.has_table_output

ScriptInit ==
    /\ \E entry \in {"run_simple_db", "execute_sql"}, statements \in Scripts :
          /\ storeKind = (IF entry = "run_simple_db" THEN "file" ELSE "memory")
          /\ run = StartRun(entry, statements)
    /\ disk \in (IF storeKind = "file" THEN InitialDirs ELSE {NoFiles})
    /\ tables = DatabaseNew(storeKind, disk)
    /\ last = [op |-> "new"]
    /\ steps = 0

\* One iteration of `for stmt in statements`.
ScriptStatement ==
    /\ run.returned = "no"
    /\ run.pc <= Len(run.statements)
    /\ \E r \in {ExecuteSqlWithOutput(storeKind, tables, disk,
                                      run.statements[run.pc].statement)} :
          /\ tables' = r.tables
          /\ disk' = r.disk
          /\ run' = AfterStatement(r)
    /\ UNCHANGED <<storeKind, last, steps>>

\* The end of execute_sql_with_path after the loop.
ScriptEnd ==
    /\ run.returned = "no"
    /\ run.pc > Len(run.statements)
    /\ run' = [run EXCEPT !.message = NoResultsMessage,
                          !.returned = IF run.success THEN "true" ELSE "false"]
    /\ UNCHANGED <<storeKind, tables, disk, last, steps>>

\* run_simple_db after execute_sql_with_path returned: both branches of the
\* if are empty and the function ends with Ok(()), exit status 0.
RunSimpleDbReturns ==
    /\ run.entry = "run_simple_db"
    /\ run.returned # "no"
    /\ ~run.exited
    /\ run' = [run EXCEPT !.exited = TRUE, !.status = 0]
    /\ UNCHANGED <<storeKind, tables, disk, last, steps>>

ScriptNext ==
    \/ ScriptStatement
    \/ ScriptEnd
    \/ RunSimpleDbReturns

ScriptSpec == ScriptInit /\ [][ScriptNext]_vars

\* C15: in file mode the statements run one after the other in script
\* order, a failing statement makes the run return failure, and after that
\* no statement is executed.
C15_FirstErrorEndsTheRun ==
    [][run.entry = "run_simple_db"
          => /\ run'.pc \in {run.pc, run.pc + 1}
             /\ run'.pc = run.pc + 1
                   => LET r == ExecuteSqlWithOutput(storeKind, tables, disk,
                                                    run.statements[run.pc].statement)
                      IN /\ run.returned = "no"
                         /\ tables' = r.tables
                         /\ disk' = r.disk
                         /\ (r.err # "none") = (run'.returned = "false")
             /\ run.returned = "false"
                   => /\ run'.returned = "false"
                      /\ run'.pc = run.pc
                      /\ tables' = tables
                      /\ disk' = disk]_vars

\* A file-mode run returned failure with two statements of the script left
\* unexecuted, the directory holding a table.
C15_Witness ==
    /\ run.entry = "run_simple_db"
    /\ run.returned = "false"
    /\ run.exited
    /\ run.pc + 1 = Len(run.statements)
    /\ "t" \in DOMAIN disk

\* C16: in file mode the exit status is 0 when every statement succeeded
\* and non-zero when one failed.
C16_ExitStatusTellsFailure ==
    (run.entry = "run_simple_db" /\ run.exited)
       => ((run.status = 0) <=> (run.returned = "true"))

\* C17 as stated: when the run is over, the closing message was printed if
\* and only if a SELECT was executed and no statement printed a table.
C17_MessageIffSelectWithoutTable ==
    (run.entry # "none" /\ run.returned # "no")
       => (run.message <=>
              /\ \E i \in 1..(run.pc - 1) : run.statements[i].select
              /\ ~run.has_table_output)

\* C17 amended: the closing message is printed at the end of a run that
\* reached the end of its script when a SELECT was executed and no
\* statement printed a table; a run ended early by a failing statement
\* (stop on error) prints no closing message.
C17_MessageAtEndOfCompletedRun ==
    (run.entry # "none" /\ run.returned # "no")
       => (run.message <=>
              /\ ~(run.stop_on_error /\ ~run.success)
              /\ \E i \in 1..(run.pc - 1) : run.statements[i].select
              /\ ~run.has_table_output)

\* A run that went through a SELECT without rows after some other statement
\* printed the closing message.
C17_Witness ==
    /\ run.entry # "none"
    /\ run.returned # "no"
    /\ run.message
    /\ Len(run.statements) >= 2
    /\ run.statements[Len(run.statements)].select
    /\ "t" \in DOMAIN tables

(***************************************************************************)
(* The interactive session: run_interactive_shell reads input lines; a     *)
(* line holding ';' is handed to process_sql_statements, which executes    *)
(* every statement of the buffer.                                          *)
(***************************************************************************)
\* Database::execute_sql: parse, execute (has_output is not read).
ExecuteSql(kind, tbls, files, st) == ExecuteSqlWithOutput(kind, tbls, files, st)

\* An input line: `exit`, an empty line (or end of input), or statements
\* each closed by ';'.
Line(kind, statements) == [kind |-> kind, statements |-> statements]

\* The input lines sessions are made of.
ReplLines ==
    LET create == StCreateTable("t", << Col("id", "Int", 0, TRUE, TRUE),
                                        Col("name", "Varchar", 2, TRUE, FALSE) >>)
        insert == StInsert("t", <<Int32(1), Varchar("a")>>)
    IN { Line("exit", << >>),
         Line("empty", << >>),
         Line("sql", << create >>),
         Line("sql", << insert >>),
         Line("sql", << SyntaxError >>),
         Line("sql", << SyntaxError, create >>),
         Line("sql", << insert, insert, StDelete("t", NoWhere) >>) }

Sessions == UNION {[1..n -> ReplLines] : n \in 1..MaxLines}

\* The locals of run_interactive_shell at its start, with the input the
\* session will read.
StartSession(lines) ==
    [entry |-> "repl", lines |-> lines, line |-> 1, buffer |-> << >>,
     ended |-> FALSE, eof |-> FALSE, executed |-> 0, errors |-> 0,
     after_error |-> 0]

\* A statement loop that gives up the buffer and the session at the first
\* error.
AfterReplStatementStopOnError(r) ==
    [run EXCEPT
        !.buffer = IF r.err = "none" THEN Tail(@) ELSE << >>,
        !.ended = (r.err # "none"),
        !.executed = @ + 1,
        !.errors = IF r.err = "none" THEN @ ELSE @ + 1,
        !.after_error = IF run.errors >= 1 THEN @ + 1 ELSE @]

\* One iteration of the loop of process_sql_statements after db.execute_sql
\* returned r: an error is printed, the loop goes on.
AfterReplStatement(r) ==
    [run EXCEPT
        !.buffer = Tail(@),
        !.executed = @ + 1,
        !.errors = IF r.err = "none" THEN @ ELSE @ + 1,
        !.after_error = IF run.errors >= 1 THEN @ + 1 ELSE @]

ReplInit ==
    /\ storeKind \in {"memory", "file"}
    /\ disk \in (IF storeKind = "file" THEN InitialDirs ELSE {NoFiles})
    /\ tables = DatabaseNew(storeKind, disk)
    /\ last = [op |-> "new"]
    /\ steps = 0
    /\ \E lines \in Sessions : run = StartSession(lines)

\* read_line and the match on the input: `exit` breaks the loop, an empty
\* line goes back to the prompt, anything else fills the buffer.
ReplReadLine ==
    /\ ~run.ended
    /\ run.buffer = << >>
    /\ run.line <= Len(run.lines)
    /\ run' = [run EXCEPT !.line = @ + 1,
                          !.buffer = run.lines[run.line].statements,
                          !.ended = (run.lines[run.line].kind = "exit")]
    /\ UNCHANGED <<storeKind, tables, disk, last, steps>>

\* At the end of the input read_line reads nothing: the input is empty and
\* the loop goes back to the prompt.
ReplEndOfInput ==
    /\ ~run.ended
    /\ run.buffer = << >>
    /\ run.line > Len(run.lines)
    /\ ~run.eof
    /\ run' = [run EXCEPT !.eof = TRUE]
    /\ UNCHANGED <<storeKind, tables, disk, last, steps>>

\* One iteration of `for (i, stmt) in statements.iter().enumerate()`.
ReplStatement ==
    /\ ~run.ended
    /\ run.buffer # << >>
    /\ \E r \in {ExecuteSql(storeKind, tables, disk, Head(run.buffer))} :
          /\ tables' = r.tables
          /\ disk' = r.disk
          /\ last' = [op |-> "execute", stmt |-> Head(run.buffer), err |-> r.err, k |-> r.k]
          /\ run' = AfterReplStatement(r)
    /\ UNCHANGED <<storeKind, steps>>

ReplNext ==
    \/ ReplReadLine
    \/ ReplEndOfInput
    \/ ReplStatement

ReplSpec == ReplInit /\ [][ReplNext]_vars

C19_ValuesStoredByColumnName ==
    (last.op = "execute" /\ last.stmt.stmt = "InsertWithColumns" /\ last.err = "none") =>
        LET st == last.stmt
            t == tables[st.table]
            n == Len(st.rows)
            first == Len(t.rows) - n
        IN /\ first >= 0
           /\ \A j \in 1..n :
                 /\ \A i \in 1..Len(st.columns) :
                       t.rows[first + j][ColumnIndex(t.columns, st.columns[i])]
                           = st.rows[j][i]
                 /\ \A c \in 1..Len(t.columns) :
                       (\A i \in 1..Len(st.columns) : st.columns[i] # t.columns[c].name)
                           => t.rows[first + j][c] = Null

\* The same for column lists whose names are pairwise different.
C19_DistinctNamesStoredByColumnName ==
    (/\ last.op = "execute" /\ last.stmt.stmt = "InsertWithColumns" /\ last.err = "none"
     /\ \A a, b \in 1..Len(last.stmt.columns) :
           a # b => last.stmt.columns[a] # last.stmt.columns[b]) =>
        LET st == last.stmt
            t == tables[st.table]
            n == Len(st.rows)
            first == Len(t.rows) - n
        IN /\ first >= 0
           /\ \A j \in 1..n :
                 /\ \A i \in 1..Len(st.columns) :
                       t.rows[first + j][ColumnIndex(t.columns, st.columns[i])]
                           = st.rows[j][i]
                 /\ \A c \in 1..Len(t.columns) :
                       (\A i \in 1..Len(st.columns) : st.columns[i] # t.columns[c].name)
                           => t.rows[first + j][c] = Null

\* INSERT INTO t (name, id) VALUES ('a', 3), (NULL, 4) added the rows
\* (3, 'a') and (4, NULL) to the two rows of t.
C19_Witness ==
    /\ last.op = "execute"
    /\ last.stmt.stmt = "InsertWithColumns"
    /\ last.err = "none"
    /\ last.stmt.table = "t"
    /\ last.stmt.columns = <<"name", "id">>
    /\ Len(last.stmt.rows) = 2
    /\ Len(tables["t"].rows) = 4
    /\ tables["t"].rows[3] = <<Int32(3), Varchar("a")>>
    /\ tables["t"].rows[4] = <<Int32(4), Null>>

\* C20: the text UPDATE t SET c1 = v1, ... with no WHERE clause is accepted
\* by the parser as an Update without condition, and when t is a table the
\* statement succeeds and every row of t holds the assigned values.
C20_UpdateWithoutWhereIsAccepted ==
    (last.op = "execute_sql" /\ last.well_formed /\ last.text.where_clause = NoWhere) =>
        /\ last.parsed
        /\ last.stmt = last.text
        /\ last.text.table \in DOMAIN tables =>
              /\ last.err = "none"
              /\ \A i \in 1..Len(tables[last.text.table].rows) :
                    tables[last.text.table].rows[i]
                        = ApplySet(tables[last.text.table].rows[i], last.text.set,
                                   tables[last.text.table].columns)

\* The text of an UPDATE with a WHERE clause is parsed to the statement it
\* was written from.
C20_UpdateWithWhereIsParsed ==
    (last.op = "execute_sql" /\ last.well_formed /\ last.text.where_clause # NoWhere) =>
        (last.parsed /\ last.stmt = last.text)

\* UPDATE t SET name = NULL; on a table t with rows was rejected by the
\* parser.
C20_RejectedWithoutWhere ==
    /\ last.op = "execute_sql"
    /\ last.well_formed
    /\ last.text = StUpdate("t", << <<"name", Null>> >>, NoWhere)
    /\ Peek(last.tokens, Len(last.tokens)).tok = "Semicolon"
    /\ ~last.parsed
    /\ last.err = "Sql"
    /\ "t" \in DOMAIN tables
    /\ Len(tables["t"].rows) = 2

(***************************************************************************)
(* The catalog: tables are added by CREATE TABLE statements (parser.rs     *)
(* parse_create_table, then the executor) and by Database::create_table.   *)
(***************************************************************************)
\* Column declarations of the CREATE TABLE texts and create_table calls:
\*   id INT PRIMARY KEY, id VARCHAR(2) NOT NULL, name INT PRIMARY KEY, Id INT
ColumnDecls ==
    { Col("id", "Int", 0, TRUE, TRUE), Col("id", "Varchar", 2, FALSE, FALSE),
      Col("name", "Int", 0, TRUE, TRUE), Col("Id", "Int", 0, TRUE, FALSE) }

\* Column lists of one or two declarations.
DeclLists == UNION {[1..n -> ColumnDecls] : n \in 1..2}

RECURSIVE ColumnsTokens(_)
\* The tokens of `name TYPE [NOT NULL] [PRIMARY KEY], ...`.
ColumnsTokens(columns) ==
    IF columns = << >> THEN << >>
    ELSE LET c == Head(columns)
         IN << Identifier(c.name) >>
            \o (IF c.ty = "Int" THEN << Identifier("INT") >>
                ELSE << Identifier("VARCHAR"), Keyword("LParen"),
                        Token("Number", "", c.len), Keyword("RParen") >>)
            \o (IF c.nullable THEN << >> ELSE << Identifier("NOT"), Keyword("Null") >>)
            \o (IF c.primary_key THEN << Keyword("Primary"), Keyword("Key") >> ELSE << >>)
            \o (IF Tail(columns) = << >> THEN << >> ELSE << Keyword("Comma") >>)
            \o ColumnsTokens(Tail(columns))

\* The tokens of CREATE TABLE name (columns);
CreateTableTokens(name, columns) ==
    << Keyword("Create"), Keyword("Table"), Identifier(name), Keyword("LParen") >>
    \o ColumnsTokens(columns)
    \o << Keyword("RParen"), Keyword("Semicolon") >>

\* parse_column_type: [err, pos, ty, len]
ParseColumnType(tokens, pos) ==
    LET tk == Peek(tokens, pos)
    IN IF tk.tok # "Identifier" THEN [err |-> "Sql", pos |-> 0, ty |-> "", len |-> 0]
       ELSE IF tk.s \in {"INT", "int"}
       THEN IF Peek(tokens, pos + 1).tok = "LParen"
            THEN IF Peek(tokens, pos + 2).tok = "Number" /\ Peek(tokens, pos + 3).tok = "RParen"
                 THEN [err |-> "none", pos |-> pos + 4, ty |-> "Int", len |-> 0]
                 ELSE [err |-> "Sql", pos |-> 0, ty |-> "", len |-> 0]
            ELSE [err |-> "none", pos |-> pos + 1, ty |-> "Int", len |-> 0]
       ELSE IF tk.s \in {"VARCHAR", "varchar"}
       THEN IF /\ Peek(tokens, pos + 1).tok = "LParen"
               /\ Peek(tokens, pos + 2).tok = "Number"
               /\ Peek(tokens, pos + 3).tok = "RParen"
            THEN [err |-> "none", pos |-> pos + 4, ty |-> "Varchar",
                  len |-> Peek(tokens, pos + 2).i]
            ELSE [err |-> "Sql", pos |-> 0, ty |-> "", len |-> 0]
       ELSE [err |-> "Sql", pos |-> 0, ty |-> "", len |-> 0]

\* parse_nullable: [err, pos, nullable]
ParseNullable(tokens, pos) ==
    LET tk == Peek(tokens, pos)
        isNull(t) == t.tok = "Null" \/ (t.tok = "Identifier" /\ t.s \in {"NULL", "null"})
    IN IF tk.tok = "Identifier" /\ tk.s \in {"NOT", "not"}
       THEN IF isNull(Peek(tokens, pos + 1))
            THEN [err |-> "none", pos |-> pos + 2, nullable |-> FALSE]
            ELSE [err |-> "Sql", pos |-> 0, nullable |-> TRUE]
       ELSE IF isNull(tk) THEN [err |-> "none", pos |-> pos + 1, nullable |-> TRUE]
       ELSE [err |-> "none", pos |-> pos, nullable |-> TRUE]

\* parse_primary_key: [err, pos, primary_key]
ParsePrimaryKey(tokens, pos) ==
    IF Peek(tokens, pos).tok = "Primary"
    THEN IF Peek(tokens, pos + 1).tok = "Key"
         THEN [err |-> "none", pos |-> pos + 2, primary_key |-> TRUE]
         ELSE [err |-> "Sql", pos |-> 0, primary_key |-> FALSE]
    ELSE [err |-> "none", pos |-> pos, primary_key |-> FALSE]

RECURSIVE ParseColumns(_, _, _)
\* The loop of parse_create_table: [err, pos, columns]
ParseColumns(tokens, pos, columns) ==
    IF Peek(tokens, pos).tok # "Identifier"
    THEN [err |-> "Sql", pos |-> 0, columns |-> << >>]
    ELSE LET data_type == ParseColumnType(tokens, pos + 1)
         IN IF data_type.err # "none" THEN [err |-> "Sql", pos |-> 0, columns |-> << >>]
            ELSE LET nullable == ParseNullable(tokens, data_type.pos)
                 IN IF nullable.err # "none" THEN [err |-> "Sql", pos |-> 0, columns |-> << >>]
                    ELSE LET primary_key == ParsePrimaryKey(tokens, nullable.pos)
                         IN IF primary_key.err # "none"
                            THEN [err |-> "Sql", pos |-> 0, columns |-> << >>]
                            ELSE LET pushed == Append(columns,
                                                  Col(Peek(tokens, pos).s, data_type.ty,
                                                      data_type.len, nullable.nullable,
                                                      primary_key.primary_key))
                                 IN CASE Peek(tokens, primary_key.pos).tok = "Comma" ->
                                            ParseColumns(tokens, primary_key.pos + 1, pushed)
                                      [] Peek(tokens, primary_key.pos).tok = "RParen" ->
                                            [err |-> "none", pos |-> primary_key.pos + 1,
                                             columns |-> pushed]
                                      [] OTHER -> [err |-> "Sql", pos |-> 0, columns |-> << >>]

\* parse_create_table: [err, statement]
ParseCreateTable(tokens) ==
    IF \/ Peek(tokens, 1).tok # "Create"
       \/ Peek(tokens, 2).tok # "Table"
       \/ Peek(tokens, 3).tok # "Identifier"
       \/ Peek(tokens, 4).tok # "LParen"
    THEN [err |-> "Sql", statement |-> NoStatement]
    ELSE LET c == ParseColumns(tokens, 5, << >>)
         IN IF c.err # "none" THEN [err |-> "Sql", statement |-> NoStatement]
            ELSE IF Cardinality({i \in 1..Len(c.columns) : c.columns[i].primary_key}) > 1
                 THEN [err |-> "Sql", statement |-> NoStatement]
                 ELSE [err |-> "none",
                       statement |-> StCreateTable(Peek(tokens, 3).s, c.columns)]

\* Database::new.
CatalogInit ==
    /\ storeKind \in {"memory", "file"}
    /\ disk = NoFiles
    /\ tables = DatabaseNew(storeKind, disk)
    /\ last = [op |-> "new"]
    /\ steps = 0
    /\ run = NoRun

\* Database::execute_sql on the text of a CREATE TABLE statement.
CatalogCreateTableText ==
    /\ steps < MaxSteps
    /\ \E name \in TableNames, columns \in DeclLists :
          \E p \in {ParseCreateTable(CreateTableTokens(name, columns))} :
          \E r \in (IF p.err # "none" THEN {XRes(p.err, tables, disk, 0)}
                    ELSE {Execute(storeKind, tables, disk, p.statement)}) :
             /\ tables' = r.tables
             /\ disk' = r.disk
             /\ last' = [op |-> "execute_sql", name |-> name, columns |-> columns,
                         parsed |-> (p.err = "none"), stmt |-> p.statement,
                         err |-> r.err, before |-> tables]
    /\ steps' = steps + 1
    /\ UNCHANGED <<storeKind, run>>

\* Database::create_table(name, columns)
CatalogCreateTable ==
    /\ steps < MaxSteps
    /\ \E name \in TableNames, columns \in DeclLists :
          \E r \in {StorageCreateTable(storeKind, tables, disk, NewTable(name, columns))} :
             /\ tables' = r.tables
             /\ disk' = r.disk
             /\ last' = [op |-> "create_table", name |-> name, columns |-> columns,
                         parsed |-> TRUE, stmt |-> NoStatement, err |-> r.err,
                         before |-> tables]
    /\ steps' = steps + 1
    /\ UNCHANGED <<storeKind, run>>

\* Database::drop_table(name)
CatalogDropTable ==
    /\ steps < MaxSteps
    /\ \E name \in TableNames :
          \E r \in {StorageDropTable(storeKind, tables, disk, name)} :
             /\ tables' = r.tables
             /\ disk' = r.disk
             /\ last' = [op |-> "drop_table", name |-> name, columns |-> << >>,
                         parsed |-> TRUE, stmt |-> NoStatement, err |-> r.err,
                         before |-> tables]
    /\ steps' = steps + 1
    /\ UNCHANGED <<storeKind, run>>

CatalogNext ==
    \/ CatalogCreateTableText
    \/ CatalogCreateTable
    \/ CatalogDropTable

CatalogSpec == CatalogInit /\ [][CatalogNext]_vars

\* C21: in every catalog state the column names of each table are pairwise
\* different, compared as stored (case-sensitively).
C21_ColumnNamesDistinct ==
    \A n \in DOMAIN tables :
        \A a, b \in 1..Len(tables[n].columns) :
            a # b => tables[n].columns[a].name # tables[n].columns[b].name

\* C22: in every catalog state each table has at most one primary-key
\* column, and a CREATE TABLE text declaring two or more primary-key
\* columns is rejected by the parser and leaves the catalog as it was.
C22_AtMostOnePrimaryKey ==
    /\ \A n \in DOMAIN tables :
          Cardinality({i \in 1..Len(tables[n].columns) :
                          tables[n].columns[i].primary_key}) <= 1
    /\ (/\ last.op = "execute_sql"
        /\ Cardinality({i \in 1..Len(last.columns) : last.columns[i].primary_key}) > 1)
          => (~last.parsed /\ last.err = "Sql" /\ tables = last.before)

\* The part of C22 about CREATE TABLE statements: tables added by the
\* statement have at most one primary-key column, and a text declaring two
\* is rejected and adds no table.
C22_StatementsKeepOnePrimaryKey ==
    (last.op = "execute_sql") =>
        /\ (last.err = "none" =>
               Cardinality({i \in 1..Len(tables[last.name].columns) :
                               tables[last.name].columns[i].primary_key}) <= 1)
        /\ (Cardinality({i \in 1..Len(last.columns) : last.columns[i].primary_key}) > 1
               => (~last.parsed /\ last.err = "Sql" /\ tables = last.before))

\* CREATE TABLE t (id INT PRIMARY KEY, name INT PRIMARY KEY); was given.
C22_Witness ==
    /\ last.op = "execute_sql"
    /\ last.name = "t"
    /\ last.columns = << Col("id", "Int", 0, TRUE, TRUE), Col("name", "Int", 0, TRUE, TRUE) >>
    /\ ~last.parsed

(***************************************************************************)
(* Expressions (sql/mod.rs Expression) and their two evaluators            *)
(* (executor.rs evaluate_expression, evaluate_expression_without_storage). *)
(* DataType has the variants Int, Varchar and Null (core/types.rs), so the *)
(* Float arms of the matches are never taken.                              *)
(***************************************************************************)
Literal(v) == [kind |-> "Literal", value |-> v]
Column(name) == [kind |-> "Column", name |-> name]
Binary(left, operator, right) ==
    [kind |-> "Binary", left |-> left, operator |-> operator, right |-> right]

\* Result<DataType, DbError>
Value(v) == [err |-> "none", value |-> v]
NoValue == [err |-> "Sql", value |-> Null]

\* row: None (table rows of the model are never empty).
NoRow == << >>

\* i32 `/`: the quotient truncated towards zero.
TruncDiv(a, b) ==
    LET abs(x) == IF x < 0 THEN 0 - x ELSE x
        q == abs(a) \div abs(b)
    IN IF (a < 0) = (b < 0) THEN q ELSE 0 - q

\* match (left_value, right_value) of Expression::Binary: Int with Int is
\* computed, every other pair of variants is an error.  The operands used
\* here stay far from the bounds of i32, so no operation overflows.
Arithmetic(a, operator, b) ==
    IF a.tag = "Int" /\ b.tag = "Int"
    THEN CASE operator = "Add" -> Value(Int32(a.i + b.i))
           [] operator = "Subtract" -> Value(Int32(a.i - b.i))
           [] operator = "Multiply" -> Value(Int32(a.i * b.i))
           [] OTHER -> IF b.i = 0 THEN NoValue
                       ELSE Value(Int32(TruncDiv(a.i, b.i)))
    ELSE NoValue

\* The orders in which self.tables.values() can yield the tables.
Orders(tbls) ==
    {o \in [1..Cardinality(DOMAIN tbls) -> DOMAIN tbls] :
        \A i, j \in 1..Cardinality(DOMAIN tbls) : o[i] = o[j] => i = j}

\* The positions in `order` of the other tables that have a column of this
\* name at a position inside the row.
OtherTablesWith(name, row, current_table, tbls, order) ==
    {i \in 1..Len(order) :
        /\ order[i] # current_table
        /\ ColumnIndex(tbls[order[i]].columns, name) \in 1..Len(row)}

\* The loop over get_tables: the first such table gives the position.
ColumnOfOtherTable(name, row, tbls, order, hits) ==
    IF hits = {} THEN NoValue
    ELSE Value(row[ColumnIndex(tbls[order[Min(hits)]].columns, name)])

\* Expression::Column of evaluate_expression, for a name without '.': the
\* column of the current table, else the first other table (in the order
\* of get_table_by_index) that has a column of this name at a position
\* inside the row.
EvaluateColumn(name, row, current_table, tbls, order) ==
    IF row = NoRow \/ name = "*" THEN NoValue
    ELSE IF current_table \in DOMAIN tbls
            /\ ColumnIndex(tbls[current_table].columns, name) \in 1..Len(row)
         THEN Value(row[ColumnIndex(tbls[current_table].columns, name)])
         ELSE ColumnOfOtherTable(name, row, tbls, order,
                                 OtherTablesWith(name, row, current_table, tbls, order))

\* Expression::Binary once both operands are evaluated: `?` on the left
\* result, `?` on the right result, then the match on the two values.
ArithmeticOfResults(left_value, operator, right_value) ==
    IF left_value.err # "none" \/ right_value.err # "none" THEN NoValue
    ELSE Arithmetic(left_value.value, operator, right_value.value)

RECURSIVE EvaluateExpression(_, _, _, _, _)
\* SqlExecutor::evaluate_expression
EvaluateExpression(expr, row, current_table, tbls, order) ==
    CASE expr.kind = "Literal" -> Value(expr.value)
      [] expr.kind = "Column" -> EvaluateColumn(expr.name, row, current_table, tbls, order)
      [] OTHER ->
            ArithmeticOfResults(
                EvaluateExpression(expr.left, row, current_table, tbls, order),
                expr.operator,
                EvaluateExpression(expr.right, row, current_table, tbls, order))

RECURSIVE EvaluateExpressionWithoutStorage(_, _, _)
\* evaluate_expression_without_storage
EvaluateExpressionWithoutStorage(expr, row, columns) ==
    CASE expr.kind = "Literal" -> Value(expr.value)
      [] expr.kind = "Column" ->
            IF expr.name = "*" THEN NoValue
            ELSE IF ColumnIndex(columns, expr.name) \in 1..Len(row)
                 THEN Value(row[ColumnIndex(columns, expr.name)])
                 ELSE NoValue
      [] OTHER ->
            ArithmeticOfResults(
                EvaluateExpressionWithoutStorage(expr.left, row, columns),
                expr.operator,
                EvaluateExpressionWithoutStorage(expr.right, row, columns))

(***************************************************************************)
(* SELECT with expressions: the parser (parser.rs parse_statement,         *)
(* parse_expression_select, parse_normal_select, parse_expression) and the *)
(* executor arms SelectExpression and SelectWithExpressions.               *)
(***************************************************************************)
StSelectExpression(expressions) ==
    [stmt |-> "SelectExpression", expressions |-> expressions]
StSelectWithExpressions(expressions, table, w) ==
    [stmt |-> "SelectWithExpressions", expressions |-> expressions, table |-> table,
     where_clause |-> w]
StSelectColumns(columns, table, w) ==
    [stmt |-> "Select", columns |-> columns, table |-> table, where_clause |-> w]

\* Result<Expression, DbError> with the position after the expression.
ExprError == [err |-> "Sql", pos |-> 0, expr |-> Literal(Null)]
ExprParsed(pos, expr) == [err |-> "none", pos |-> pos, expr |-> expr]

\* Token::Plus, Minus, Asterisk, Slash as ArithmeticOperator.
OperatorOf(tok) ==
    CASE tok = "Plus" -> "Add"
      [] tok = "Minus" -> "Subtract"
      [] tok = "Asterisk" -> "Multiply"
      [] tok = "Slash" -> "Divide"
      [] OTHER -> "None"

\* The token of an arithmetic operator.
OperatorToken(operator) ==
    CASE operator = "Add" -> Keyword("Plus")
      [] operator = "Subtract" -> Keyword("Minus")
      [] operator = "Multiply" -> Keyword("Asterisk")
      [] OTHER -> Keyword("Slash")

\* self.expect(Token::RParen) after the expression in parentheses.
ExpectRParen(tokens, e) ==
    IF e.err # "none" THEN ExprError
    ELSE IF Peek(tokens, e.pos).tok # "RParen" THEN ExprError
    ELSE ExprParsed(e.pos + 1, e.expr)

\* Expression::Binary of the left operand, the operator at its end and the
\* parsed rest.
BinaryOf(tokens, left, right) ==
    IF right.err # "none" THEN ExprError
    ELSE ExprParsed(right.pos,
                    Binary(left.expr, OperatorOf(Peek(tokens, left.pos).tok), right.expr))

RECURSIVE ParsePrimaryExpression(_, _)
RECURSIVE ParseBinaryExpression(_, _)
RECURSIVE AfterPrimaryExpression(_, _)
\* parse_primary_expression: a number, a string, an identifier, or an
\* expression in parentheses; any other token (NULL included) is an error.
ParsePrimaryExpression(tokens, pos) ==
    CASE Peek(tokens, pos).tok = "Number" ->
            ExprParsed(pos + 1, Literal(Int32(Peek(tokens, pos).i)))
      [] Peek(tokens, pos).tok = "String" ->
            ExprParsed(pos + 1, Literal(Varchar(Peek(tokens, pos).s)))
      [] Peek(tokens, pos).tok = "Identifier" ->
            ExprParsed(pos + 1, Column(Peek(tokens, pos).s))
      [] Peek(tokens, pos).tok = "LParen" ->
            ExpectRParen(tokens, ParseBinaryExpression(tokens, pos + 1))
      [] OTHER -> ExprError

\* parse_binary_expression after its primary expression: when an operator
\* follows, the operator and parse_expression of everything after it.
AfterPrimaryExpression(tokens, left) ==
    IF left.err # "none" THEN ExprError
    ELSE IF OperatorOf(Peek(tokens, left.pos).tok) = "None" THEN left
    ELSE BinaryOf(tokens, left, ParseBinaryExpression(tokens, left.pos + 1))

\* parse_binary_expression
ParseBinaryExpression(tokens, pos) ==
    AfterPrimaryExpression(tokens, ParsePrimaryExpression(tokens, pos))

\* parse_expression
ParseExpression(tokens, pos) == ParseBinaryExpression(tokens, pos)

\* Result<SqlStatement, DbError>
StatementError == [err |-> "Sql", statement |-> NoStatement]
StatementParsed(st) == [err |-> "none", statement |-> st]

RECURSIVE ParseExpressionList(_, _, _)
RECURSIVE AfterListExpression(_, _, _)
\* parse_expression_select after one expression: a comma goes on; FROM
\* after the expressions is an error, any other token ends the statement.
AfterListExpression(tokens, expressions, e) ==
    IF e.err # "none" THEN StatementError
    ELSE IF Peek(tokens, e.pos).tok = "Comma"
         THEN ParseExpressionList(tokens, e.pos + 1, Append(expressions, e.expr))
    ELSE IF Peek(tokens, e.pos).tok = "From" THEN StatementError
    ELSE StatementParsed(StSelectExpression(Append(expressions, e.expr)))

\* parse_expression_select: expressions separated by commas.
ParseExpressionList(tokens, pos, expressions) ==
    AfterListExpression(tokens, expressions, ParseExpression(tokens, pos))

ParseExpressionSelect(tokens, pos) == ParseExpressionList(tokens, pos, << >>)

\* The result of parse_normal_select: SelectWithExpressions when an item
\* was parsed as an expression (the bare column names are appended as
\* Column expressions), Select otherwise.
SelectStatement(columns, expressions, has_expression, table, w) ==
    IF w.err # "none" THEN StatementError
    ELSE IF has_expression
         THEN StatementParsed(
                  StSelectWithExpressions(
                      expressions \o [i \in 1..Len(columns) |-> Column(columns[i])],
                      table, w.w))
         ELSE StatementParsed(StSelectColumns(columns, table, w.w))

\* The end of parse_normal_select: FROM, the table name, an optional WHERE
\* (ORDER BY is absent from the statements considered).
ParseFrom(tokens, pos, columns, expressions, has_expression) ==
    IF Peek(tokens, pos).tok # "From" \/ Peek(tokens, pos + 1).tok # "Identifier"
    THEN StatementError
    ELSE SelectStatement(columns, expressions, has_expression, Peek(tokens, pos + 1).s,
                         IF Peek(tokens, pos + 2).tok = "Where"
                         THEN ParseWhereClause(tokens, pos + 2)
                         ELSE Parsed(pos + 2, Null, NoWhere, << >>))

RECURSIVE ParseSelectItems(_, _, _, _, _)
RECURSIVE AfterSelectItem(_, _, _, _, _)
\* The loop of parse_normal_select after one item: a comma goes on, FROM
\* ends the list, any other token is an error.
AfterSelectItem(tokens, next, columns, expressions, has_expression) ==
    CASE Peek(tokens, next).tok = "Comma" ->
            ParseSelectItems(tokens, next + 1, columns, expressions, has_expression)
      [] Peek(tokens, next).tok = "From" ->
            ParseFrom(tokens, next, columns, expressions, has_expression)
      [] OTHER -> StatementError

\* One item of parse_normal_select, tried as an expression (e) first and,
\* after a failure, from the same position as a bare column name.
SelectItem(tokens, pos, columns, expressions, has_expression, e) ==
    IF e.err = "none"
    THEN AfterSelectItem(tokens, e.pos, columns, Append(expressions, e.expr), TRUE)
    ELSE IF Peek(tokens, pos).tok \in {"Identifier", "String"}
         THEN AfterSelectItem(tokens, pos + 1, Append(columns, Peek(tokens, pos).s),
                              expressions, has_expression)
         ELSE StatementError

\* The loop of parse_normal_select.
ParseSelectItems(tokens, pos, columns, expressions, has_expression) ==
    SelectItem(tokens, pos, columns, expressions, has_expression,
               ParseExpression(tokens, pos))

\* parse_normal_select
ParseNormalSelect(tokens, pos) ==
    IF Peek(tokens, pos).tok = "Asterisk"
    THEN ParseFrom(tokens, pos + 1, <<"*">>, << >>, FALSE)
    ELSE ParseSelectItems(tokens, pos, << >>, << >>, FALSE)

\* if let Ok(expr_stmt) = parse_expression_select { return } else rewind
\* and parse_normal_select.
OrNormalSelect(tokens, expr_stmt) ==
    IF expr_stmt.err = "none" THEN expr_stmt ELSE ParseNormalSelect(tokens, 2)

\* parse_statement, Token::Select: the expression query is tried first and
\* the ordinary query after it failed.
ParseSelect(tokens) ==
    IF Peek(tokens, 1).tok # "Select" THEN StatementError
    ELSE OrNormalSelect(tokens, ParseExpressionSelect(tokens, 2))

\* What a SELECT leaves: the result, the rows of the printed table (none
\* when nothing is printed) and the executor's has_output.
QueryResult(err, rows, has_output) ==
    [err |-> err, rows |-> rows, has_output |-> has_output]

\* The rows handed to the formatter: the Display of every value.
DisplayRows(values) ==
    [k \in 1..Len(values) |-> [i \in 1..Len(values[k]) |-> Display(values[k][i].value)]]

\* The outcome of SelectExpression given the results of its expressions.
ExpressionOutput(results) ==
    IF \E i \in 1..Len(results) : results[i].err # "none"
    THEN QueryResult("Sql", << >>, FALSE)
    ELSE QueryResult("none", DisplayRows(<< results >>), TRUE)

\* SqlStatement::SelectExpression: every expression is evaluated without a
\* row; one row is printed and has_output is set.
ExecSelectExpression(expressions, tbls, order) ==
    ExpressionOutput([i \in 1..Len(expressions) |->
                         EvaluateExpression(expressions[i], NoRow, "", tbls, order)])

\* The indices of the rows on which WHERE is true, in order.
SelectedRows(m) == SelectSeq([r \in 1..Len(m) |-> r], LAMBDA r : m[r] = "true")

\* The outcome of a SELECT ... FROM given, for every row, the result m of
\* WHERE and the results of the projection: an error on a row whose WHERE
\* fails or whose selected projection fails; the table is printed and
\* has_output set when at least one row was selected.
RowsOutput(m, values, selected) ==
    IF \E r \in 1..Len(m) :
          \/ m[r] = "error"
          \/ /\ m[r] = "true"
             /\ \E i \in 1..Len(values[r]) : values[r][i].err # "none"
    THEN QueryResult("Sql", << >>, FALSE)
    ELSE QueryResult("none",
                     DisplayRows([k \in 1..Len(selected) |-> values[selected[k]]]),
                     selected # << >>)

\* WHERE on every row of a table.
MatchesOfRows(t, w) == [r \in 1..Len(t.rows) |-> Matches(t.rows[r], w, t.columns)]

\* SqlStatement::SelectWithExpressions without ORDER BY: for each row the
\* WHERE clause, then every expression on the row.
ExecSelectWithExpressions(expressions, name, w, tbls, order) ==
    IF name \notin DOMAIN tbls THEN QueryResult("Table", << >>, FALSE)
    ELSE RowsOutput(MatchesOfRows(tbls[name], w),
                    [r \in 1..Len(tbls[name].rows) |->
                        [i \in 1..Len(expressions) |->
                            EvaluateExpression(expressions[i], tbls[name].rows[r], name,
                                               tbls, order)]],
                    SelectedRows(MatchesOfRows(tbls[name], w)))

\* SqlStatement::Select with columns = ["*"] and no ORDER BY, with the
\* printed rows.
ExecSelectStar(name, w, tbls) ==
    IF name \notin DOMAIN tbls THEN QueryResult("Table", << >>, FALSE)
    ELSE RowsOutput(MatchesOfRows(tbls[name], w),
                    [r \in 1..Len(tbls[name].rows) |->
                        [i \in 1..Len(tbls[name].rows[r]) |-> Value(tbls[name].rows[r][i])]],
                    SelectedRows(MatchesOfRows(tbls[name], w)))

\* SqlExecutor::execute on a SELECT statement.
ExecuteQuery(st, tbls, order) ==
    CASE st.stmt = "SelectExpression" -> ExecSelectExpression(st.expressions, tbls, order)
      [] st.stmt = "SelectWithExpressions" ->
            ExecSelectWithExpressions(st.expressions, st.table, st.where_clause, tbls, order)
      [] OTHER -> ExecSelectStar(st.table, st.where_clause, tbls)

(***************************************************************************)
(* ExprSpec: one expression evaluation, or one SELECT of an arithmetic     *)
(* expression, on a prepared directory store (the store that implements    *)
(* get_tables and get_table_by_index, file.rs).                            *)
(* QuerySpec: a sequence of statements on the same stores, with one        *)
(* SqlExecutor used for every call.                                        *)
(***************************************************************************)
\* The integer literals of the SELECT texts.
Numbers == 0..3
ArithmeticOperators == {"Add", "Subtract", "Multiply", "Divide"}

\* The scripts that prepare the catalog:
\*   t (id INT PRIMARY KEY, name VARCHAR(2)) without rows;
\*   t with (1,'a'), (2,NULL);
\*   the same and u (zz INT, v INT) with (NULL, 3);
\*   the same and u (v INT, zz INT) with (NULL, 3);
\*   the same and both u (zz INT, v INT) and w (v INT, zz INT).
QueryScripts ==
    LET t == << StCreateTable("t", << Col("id", "Int", 0, TRUE, TRUE),
                                      Col("name", "Varchar", 2, TRUE, FALSE) >>) >>
        rows == << StInsertMultiple("t", << <<Int32(1), Varchar("a")>>,
                                            <<Int32(2), Null>> >>) >>
        zzFirst(n) == << StCreateTable(n, << Col("zz", "Int", 0, TRUE, FALSE),
                                             Col("v", "Int", 0, TRUE, FALSE) >>),
                         StInsert(n, <<Null, Int32(3)>>) >>
        zzSecond(n) == << StCreateTable(n, << Col("v", "Int", 0, TRUE, FALSE),
                                              Col("zz", "Int", 0, TRUE, FALSE) >>),
                          StInsert(n, <<Null, Int32(3)>>) >>
    IN { t, t \o rows, t \o rows \o zzFirst("u"), t \o rows \o zzSecond("u"),
         t \o rows \o zzFirst("u") \o zzSecond("w") }

\* The expressions handed to the two evaluators.
EvalExpressions ==
    LET operands == {Literal(Null), Literal(Int32(0)), Literal(Int32(2)), Column("v"),
                     Column("id")}
    IN {Binary(a, o, b) : a \in operands, o \in {"Add", "Divide"}, b \in operands}

\* The projection lists of SELECT ... FROM.
Projections ==
    { << Column("id") >>, << Column("zz") >>, << Column("name"), Column("id") >>,
      << Binary(Column("v"), "Add", Literal(Int32(1))) >> }

\* The WHERE clauses of SELECT ... FROM.
QueryWheres == {NoWhere, Simple("id", "Gt", Int32(3))}

\* The arithmetic SELECT texts of a statement sequence: 1+2*3, 2*3+1, 1/0+1.
FlatSelects == { <<1, "Add", 2, "Multiply", 3>>, <<2, "Multiply", 3, "Add", 1>>,
                 <<1, "Divide", 0, "Add", 1>> }

\* The statements that are not SELECT.
OtherStatements ==
    { StInsert("t", <<Int32(3), Varchar("a")>>),
      StDelete("t", Simple("id", "Gt", Int32(1))),
      StUpdate("t", << <<"name", Varchar("b")>> >>, NoWhere),
      StInsert("x", <<Int32(3)>>) }

RECURSIVE ExpressionTokens(_)
\* The tokens of an expression written without parentheses.
ExpressionTokens(expr) ==
    CASE expr.kind = "Literal" -> << ValueToken(expr.value) >>
      [] expr.kind = "Column" -> << Identifier(expr.name) >>
      [] OTHER -> ExpressionTokens(expr.left) \o << OperatorToken(expr.operator) >>
                  \o ExpressionTokens(expr.right)

RECURSIVE ProjectionTokens(_)
\* The tokens of a projection list, commas included.
ProjectionTokens(items) ==
    IF Len(items) = 1 THEN ExpressionTokens(items[1])
    ELSE ExpressionTokens(items[1]) \o << Keyword("Comma") >> \o ProjectionTokens(Tail(items))

\* SELECT a op1 b op2 c;
FlatSelectTokens(a, op1, b, op2, c) ==
    << Keyword("Select"), Token("Number", "", a), OperatorToken(op1),
       Token("Number", "", b), OperatorToken(op2), Token("Number", "", c),
       Keyword("Semicolon") >>

\* SELECT items FROM table [WHERE w];
SelectFromTokens(items, table, w) ==
    << Keyword("Select") >> \o ProjectionTokens(items)
    \o << Keyword("From"), Identifier(table) >>
    \o (IF w = NoWhere THEN << >> ELSE << Keyword("Where") >> \o WhereTokens(w))
    \o << Keyword("Semicolon") >>

\* SELECT * FROM table [WHERE w];
SelectStarTokens(table, w) ==
    << Keyword("Select"), Keyword("Asterisk"), Keyword("From"), Identifier(table) >>
    \o (IF w = NoWhere THEN << >> ELSE << Keyword("Where") >> \o WhereTokens(w))
    \o << Keyword("Semicolon") >>

\* The value of a op1 b op2 c in ordinary arithmetic: * and / before + and
\* -, equal precedence from left to right.
OrdinaryValue(a, op1, b, op2, c) ==
    IF op1 \in {"Add", "Subtract"} /\ op2 \in {"Multiply", "Divide"}
    THEN LET inner == Arithmetic(Int32(b), op2, Int32(c))
         IN IF inner.err # "none" THEN NoValue
            ELSE Arithmetic(Int32(a), op1, inner.value)
    ELSE LET inner == Arithmetic(Int32(a), op1, Int32(b))
         IN IF inner.err # "none" THEN NoValue
            ELSE Arithmetic(inner.value, op2, Int32(c))

\* An executor whose flag is never cleared.
HasOutputAfterNotCleared(before, set) == before \/ set

\* SqlExecutor::execute, line 24 and the assignments of has_output: the
\* flag after a call is what this call set, whatever it was before.
HasOutputAfter(before, set) == set

\* SqlExecutor::new on a Database::new of a new directory, after the
\* preparing script.
QueryInit ==
    /\ storeKind = "file"
    /\ \E script \in QueryScripts :
          \E r \in {RunStatements("file", DatabaseNew("file", NoFiles), NoFiles, script)} :
             /\ tables = r.tables
             /\ disk = r.disk
    /\ last = [op |-> "new"]
    /\ steps = 0
    /\ run = [entry |-> "executor", has_output |-> FALSE]

\* evaluate_expression and evaluate_expression_without_storage called on a
\* row of a table.
ExprEvaluate ==
    /\ steps = 0
    /\ \E expr \in EvalExpressions : \E name \in DOMAIN tables :
       \E i \in 1..Len(tables[name].rows) : \E order \in Orders(tables) :
          last' = [op |-> "evaluate", expr |-> expr, table |-> name,
                   row |-> tables[name].rows[i], order |-> order,
                   projection |-> EvaluateExpression(expr, tables[name].rows[i], name,
                                                     tables, order),
                   condition |-> EvaluateExpressionWithoutStorage(
                                     expr, tables[name].rows[i], tables[name].columns)]
    /\ steps' = steps + 1
    /\ UNCHANGED <<storeKind, tables, disk, run>>

\* The statement parsed from SELECT a op1 b op2 c; is executed: no row is
\* read, so the order of the tables plays no part.
SelectsExpression(a, op1, b, op2, c) ==
    \E p \in {ParseSelect(FlatSelectTokens(a, op1, b, op2, c))} :
    \E r \in {IF p.err = "none" THEN ExecuteQuery(p.statement, tables, << >>)
              ELSE QueryResult("Sql", << >>, FALSE)} :
       /\ last' = [op |-> "select_expression", a |-> a, op1 |-> op1, b |-> b,
                   op2 |-> op2, c |-> c, stmt |-> p.statement, err |-> r.err,
                   rows |-> r.rows, was |-> run.has_output]
       /\ run' = [run EXCEPT !.has_output = HasOutputAfter(run.has_output, r.has_output)]
       /\ steps' = steps + 1
       /\ UNCHANGED <<storeKind, tables, disk>>

\* One SELECT of an arithmetic expression over the integer literals.
ExprSelectExpressionText ==
    /\ steps = 0
    /\ \E a, b, c \in Numbers : \E op1, op2 \in ArithmeticOperators :
          SelectsExpression(a, op1, b, op2, c)

ExprNext ==
    \/ ExprEvaluate
    \/ ExprSelectExpressionText

ExprSpec == QueryInit /\ [][ExprNext]_vars

\* A SELECT of an arithmetic expression in a statement sequence.
QuerySelectExpressionText ==
    /\ steps < MaxSteps
    /\ \E f \in FlatSelects : SelectsExpression(f[1], f[2], f[3], f[4], f[5])

\* execute of the statement parsed from SELECT items FROM table [WHERE w];
\* `alone` is what the same statement gives in the catalog that holds the
\* queried table and nothing else.
QuerySelectFromText ==
    /\ steps < MaxSteps
    /\ \E table \in {"t", "u"} : \E w \in QueryWheres :
       \E tokens \in {SelectFromTokens(items, table, w) : items \in Projections}
                     \cup {SelectStarTokens(table, w)} :
       \E p \in {ParseSelect(tokens)} : \E order \in Orders(tables) :
       \E r \in {IF p.err = "none" THEN ExecuteQuery(p.statement, tables, order)
                 ELSE QueryResult("Sql", << >>, FALSE)} :
          /\ last' = [op |-> "select_from", tokens |-> tokens, table |-> table,
                      stmt |-> p.statement, err |-> r.err, rows |-> r.rows,
                      was |-> run.has_output,
                      alone |-> IF p.err = "none"
                                THEN ExecuteQuery(p.statement,
                                                  [n \in DOMAIN tables \cap {table} |->
                                                      tables[n]],
                                                  [i \in 1..Cardinality(DOMAIN tables
                                                                        \cap {table}) |->
                                                      table])
                                ELSE QueryResult("Sql", << >>, FALSE)]
          /\ run' = [run EXCEPT !.has_output = HasOutputAfter(run.has_output, r.has_output)]
    /\ steps' = steps + 1
    /\ UNCHANGED <<storeKind, tables, disk>>

\* execute of a statement that is not a SELECT.
QueryExecute ==
    /\ steps < MaxSteps
    /\ \E st \in OtherStatements : \E r \in {Execute("file", tables, disk, st)} :
          /\ tables' = r.tables
          /\ disk' = r.disk
          /\ last' = [op |-> "execute", stmt |-> st, err |-> r.err, rows |-> << >>,
                      was |-> run.has_output]
          /\ run' = [run EXCEPT !.has_output = HasOutputAfter(run.has_output, FALSE)]
    /\ steps' = steps + 1
    /\ UNCHANGED storeKind

QueryNext ==
    \/ QuerySelectExpressionText
    \/ QuerySelectFromText
    \/ QueryExecute

QuerySpec == QueryInit /\ [][QueryNext]_vars

(***************************************************************************)
(* C23: a binary arithmetic expression with a NULL operand evaluates to    *)
(* NULL, not to an error, unless it is a division by integer zero, which   *)
(* fails; in the projection evaluator and in the WHERE evaluator alike.    *)
(***************************************************************************)
\* The operands of the evaluated expression, as each evaluator sees them.
C23_ProjectionOperands ==
    [left |-> EvaluateExpression(last.expr.left, last.row, last.table, tables, last.order),
     right |-> EvaluateExpression(last.expr.right, last.row, last.table, tables, last.order)]
C23_ConditionOperands ==
    [left |-> EvaluateExpressionWithoutStorage(last.expr.left, last.row,
                                               tables[last.table].columns),
     right |-> EvaluateExpressionWithoutStorage(last.expr.right, last.row,
                                                tables[last.table].columns)]

\* Both operands have a value, one of them is NULL, and the expression is
\* not a division by integer zero.
C23_NullOperand(operands) ==
    /\ operands.left.err = "none"
    /\ operands.right.err = "none"
    /\ operands.left.value = Null \/ operands.right.value = Null
    /\ ~(last.expr.operator = "Divide" /\ operands.right.value = Int32(0))

\* C23: after an evaluation with a NULL operand that is not a division by
\* zero, each evaluator has returned NULL.
C23_NullOperandGivesNull ==
    last.op = "evaluate" =>
        /\ C23_NullOperand(C23_ProjectionOperands) => last.projection = Value(Null)
        /\ C23_NullOperand(C23_ConditionOperands) => last.condition = Value(Null)

\* A division of an integer by integer zero fails in both evaluators.
C23_DivisionByZeroFails ==
    (/\ last.op = "evaluate"
     /\ last.expr = Binary(Literal(Int32(2)), "Divide", Literal(Int32(0))))
    => /\ last.projection.err = "Sql"
       /\ last.condition.err = "Sql"

\* NULL + 2 has been evaluated on a row and both evaluators failed.
C23_Witness ==
    /\ last.op = "evaluate"
    /\ last.expr = Binary(Literal(Null), "Add", Literal(Int32(2)))
    /\ last.projection.err = "Sql"
    /\ last.condition.err = "Sql"

(***************************************************************************)
(* C24: SELECT of an arithmetic expression over integer literals, without  *)
(* FROM, prints one row holding the value of the expression in ordinary    *)
(* arithmetic: multiplication and division before addition and             *)
(* subtraction, equal precedence from left to right.                       *)
(***************************************************************************)
\* C24: after SELECT a op1 b op2 c; whose ordinary value is defined, the
\* statement has succeeded and its one row holds that value.
C24_OrdinaryArithmetic ==
    (/\ last.op = "select_expression"
     /\ OrdinaryValue(last.a, last.op1, last.b, last.op2, last.c).err = "none")
    => /\ last.err = "none"
       /\ last.rows = << << Display(OrdinaryValue(last.a, last.op1, last.b, last.op2,
                                                  last.c).value) >> >>

\* What the parser builds: a op1 (b op2 c), whatever the operators.
C24_RightNested ==
    last.op = "select_expression" =>
        last.stmt = StSelectExpression(
                        << Binary(Literal(Int32(last.a)), last.op1,
                                  Binary(Literal(Int32(last.b)), last.op2,
                                         Literal(Int32(last.c)))) >>)

\* SELECT 1+2*3; has printed the row 7.
C24_Witness ==
    /\ last.op = "select_expression"
    /\ <<last.a, last.op1, last.b, last.op2, last.c>> = <<1, "Add", 2, "Multiply", 3>>
    /\ last.rows = << << "7" >> >>

\* SELECT 2*3+1; has printed the row 8.
C24_WitnessWrongValue ==
    /\ last.op = "select_expression"
    /\ <<last.a, last.op1, last.b, last.op2, last.c>> = <<2, "Multiply", 3, "Add", 1>>
    /\ last.rows = << << "8" >> >>

(***************************************************************************)
(* C25: a SELECT ... FROM t whose projection names a column that t does    *)
(* not have fails, whatever other tables exist: catalogs that agree on t   *)
(* give the same outcome and the same output.                              *)
(***************************************************************************)
\* C25: after SELECT ... FROM t the result and the printed rows are those
\* of the catalog that holds t alone.
C25_OtherTablesDoNotMatter ==
    last.op = "select_from" =>
        /\ last.err = last.alone.err
        /\ last.rows = last.alone.rows

\* In the catalog that holds t alone, a projection naming a column that t
\* does not have fails whenever t has a row.
C25_UnknownColumnFailsAlone ==
    (/\ last.op = "select_from"
     /\ last.stmt = StSelectWithExpressions(<< Column("zz") >>, "t", NoWhere)
     /\ "t" \in DOMAIN tables
     /\ tables["t"].rows # << >>)
    => last.alone.err = "Sql"

\* SELECT zz FROM t; has succeeded and printed rows although t has no
\* column zz.
C25_Witness ==
    /\ last.op = "select_from"
    /\ last.stmt = StSelectWithExpressions(<< Column("zz") >>, "t", NoWhere)
    /\ ColumnIndex(tables["t"].columns, "zz") = 0
    /\ last.err = "none"
    /\ last.rows # << >>

(***************************************************************************)
(* C30: after a successful execute, has_output tells whether this call     *)
(* printed a result table, whatever earlier calls on the executor did.     *)
(***************************************************************************)
\* C30: after a successful call the flag is set exactly when rows were
\* printed: always for a SELECT without FROM, for a SELECT ... FROM with
\* at least one selected row, never for another statement.
C30_HasOutputIsThisCall ==
    (last.op \in {"select_expression", "select_from", "execute"} /\ last.err = "none")
    => /\ run.has_output = (last.rows # << >>)
       /\ last.op = "select_expression" => run.has_output
       /\ last.op = "execute" => ~run.has_output

\* A SELECT ... FROM that selected no row has succeeded on an executor
\* whose previous call had printed a table, and the flag is clear.
C30_Witness ==
    /\ last.op = "select_from"
    /\ last.err = "none"
    /\ last.rows = << >>
    /\ last.was
    /\ ~run.has_output

\* A statement that is no SELECT has succeeded after a call that printed.
C30_WitnessOtherStatement ==
    /\ last.op = "execute"
    /\ last.err = "none"
    /\ last.was
    /\ ~run.has_output

(***************************************************************************)
(* C26: a successful UPDATE changes only cells in rows matching WHERE and  *)
(* in columns named in SET; a SET name that is no column is ignored; row   *)
(* count, row order, columns and the other tables stay as they were.       *)
(***************************************************************************)
\* The statement of this step is an UPDATE of an existing table.
IsUpdateStep ==
    /\ last'.op = "execute"
    /\ last'.stmt.stmt = "Update"
    /\ last'.stmt.table \in DOMAIN tables

\* The names of a SET list.
SetNames(set) == {set[i][1] : i \in 1..Len(set)}

\* WHERE fails on some row of the table before the statement.
WhereFails(name, w) ==
    \E i \in 1..Len(tables[name].rows) :
        Matches(tables[name].rows[i], w, tables[name].columns) = "error"

\* The frame of a successful UPDATE of table name.
UpdateFrame(name, set, w) ==
    /\ DOMAIN tables' = DOMAIN tables
    /\ \A n \in DOMAIN tables \ {name} : tables'[n] = tables[n]
    /\ tables'[name].name = tables[name].name
    /\ tables'[name].columns = tables[name].columns
    /\ Len(tables'[name].rows) = Len(tables[name].rows)
    /\ \A i \in 1..Len(tables[name].rows) :
          /\ Len(tables'[name].rows[i]) = Len(tables[name].rows[i])
          /\ \A j \in 1..Len(tables[name].rows[i]) :
                tables'[name].rows[i][j] # tables[name].rows[i][j]
                => /\ Matches(tables[name].rows[i], w, tables[name].columns) = "true"
                   /\ j \in 1..Len(tables[name].columns)
                   /\ tables[name].columns[j].name \in SetNames(set)

\* C26: an UPDATE on whose rows WHERE evaluates succeeds, whatever names
\* its SET list holds, and changes nothing outside the matching rows and
\* the named columns.
C26_UpdateFrame ==
    [][IsUpdateStep /\ ~WhereFails(last'.stmt.table, last'.stmt.where_clause)
       => /\ last'.err = "none"
          /\ UpdateFrame(last'.stmt.table, last'.stmt.set, last'.stmt.where_clause)]_vars

\* An UPDATE with a WHERE clause has succeeded, changed a row and left
\* another row as it was.
C26_Witness ==
    /\ last.op = "execute"
    /\ last.stmt.stmt = "Update"
    /\ last.stmt.where_clause # NoWhere
    /\ last.err = "none"
    /\ last.stmt.table = "t"
    /\ "t" \in DOMAIN tables
    /\ tables["t"].rows = << <<Int32(1), Varchar("a")>>, <<Int32(2), Varchar("abc")>> >>

\* UPDATE t SET zz = 1 has succeeded.
C26_WitnessUnknownName ==
    /\ last.op = "execute"
    /\ last.stmt = StUpdate("t", << <<"zz", Int32(1)>> >>, NoWhere)
    /\ last.err = "none"
    /\ "t" \in DOMAIN tables
    /\ tables["t"].rows # << >>

(***************************************************************************)
(* C27: UPDATE evaluates WHERE on every row before it assigns: when WHERE  *)
(* fails on any row the statement returns the error and no cell changed.   *)
(***************************************************************************)
\* C27: an UPDATE whose WHERE fails on some row returns the error and
\* leaves every table as it was.
C27_FailedUpdateChangesNothing ==
    [][IsUpdateStep /\ WhereFails(last'.stmt.table, last'.stmt.where_clause)
       => /\ last'.err = "Sql"
          /\ tables' = tables
          /\ disk' = disk]_vars

\* UPDATE t SET name = 'abc' WHERE id = 1 OR name < 'abc' has failed on the
\* second row (1,'a'), (2,NULL) after matching the first.
C27_Witness ==
    /\ last.op = "execute"
    /\ last.stmt = StUpdate("t", << <<"name", Varchar("abc")>> >>,
                            Or(Simple("id", "Eq", Int32(1)),
                               Simple("name", "Lt", Varchar("abc"))))
    /\ last.err = "Sql"
    /\ "t" \in DOMAIN tables
    /\ tables["t"].rows = << <<Int32(1), Varchar("a")>>, <<Int32(2), Null>> >>

(***************************************************************************)
(* C28: after a successful DELETE FROM t WHERE c the rows of t are the     *)
(* previous rows on which c is false, in their previous order.             *)
(***************************************************************************)
\* The statement of this step is a DELETE with a WHERE clause on an
\* existing table.
IsDeleteWhereStep ==
    /\ last'.op = "execute"
    /\ last'.stmt.stmt = "Delete"
    /\ last'.stmt.where_clause # NoWhere
    /\ last'.stmt.table \in DOMAIN tables

\* The rows of table name on which w is false, in order.
Survivors(name, w) ==
    SelectSeq(tables[name].rows,
              LAMBDA row : EvaluateWhereClause(row, w, tables[name].columns) = "false")

C29_FailedDeleteChangesNothing ==
    [][IsDeleteWhereStep /\ last'.err # "none" => tables' = tables]_vars

\* DELETE FROM t WHERE id = 1 OR name < 'abc' has failed on (2,NULL) after
\* removing (1,'a').
C29_Witness ==
    /\ last.op = "execute"
    /\ last.stmt = StDelete("t", Or(Simple("id", "Eq", Int32(1)),
                                    Simple("name", "Lt", Varchar("abc"))))
    /\ last.err = "Sql"
    /\ "t" \in DOMAIN tables
    /\ tables["t"].rows = << <<Int32(2), Null>> >>

(***************************************************************************)
(* FaultSpec: the directory store when a file operation can fail           *)
(* (fs::write in save_table, fs::remove_file in drop_table,                *)
(* fs::read_to_string / serde_json::from_str in load_table).  `fails`      *)
(* tells whether the file operation of the call, if it is reached, fails.  *)
(***************************************************************************)
\* save_table(table_name): the file is written, or fs::write fails and the
\* file is as it was.
SaveTableResult(tbls, files, name, fails) ==
    IF fails /\ name \in DOMAIN tbls THEN Res("Io", tbls, files)
    ELSE Res("none", tbls, SaveTable(tbls, files, name))

\* FileStorage::create_table: contains_key, insert, save_table.
FaultCreateTable(tbls, files, table, fails) ==
    IF table.name \in DOMAIN tbls THEN Res("Table", tbls, files)
    ELSE SaveTableResult(Put(tbls, table.name, table), files, table.name, fails)

\* FileStorage::drop_table: remove from the map, then remove_file when the
\* file exists.
FaultDropTable(tbls, files, name, fails) ==
    IF name \notin DOMAIN tbls THEN Res("Table", tbls, files)
    ELSE IF fails /\ name \in DOMAIN files THEN Res("Io", Remove(tbls, name), files)
    ELSE Res("none", Remove(tbls, name), Remove(files, name))

\* FileStorage::insert_row: Table::insert_row, then save_table.
FaultInsertRow(tbls, files, name, row, fails) ==
    IF name \notin DOMAIN tbls THEN Res("Table", tbls, files)
    ELSE IF ValidateRow(tbls[name], row) # "ok"
         THEN Res(ValidateRow(tbls[name], row), tbls, files)
         ELSE SaveTableResult(Put(tbls, name, TableInsertRow(tbls[name], row).table),
                              files, name, fails)

\* FileStorage::delete_row: rows.remove(row_index), then save_table.
FaultDeleteRow(tbls, files, name, row_index, fails) ==
    IF name \notin DOMAIN tbls THEN Res("Table", tbls, files)
    ELSE IF row_index < Len(tbls[name].rows)
         THEN SaveTableResult(
                  Put(tbls, name, [tbls[name] EXCEPT !.rows = RemoveAt(@, row_index + 1)]),
                  files, name, fails)
         ELSE Res("Table", tbls, files)

\* FileStorage::update_row: validate_row, rows[row_index] = row, save_table.
FaultUpdateRow(tbls, files, name, row_index, row, fails) ==
    IF name \notin DOMAIN tbls THEN Res("Table", tbls, files)
    ELSE IF ValidateRow(tbls[name], row) # "ok"
         THEN Res(ValidateRow(tbls[name], row), tbls, files)
         ELSE IF row_index < Len(tbls[name].rows)
              THEN SaveTableResult(
                       Put(tbls, name, [tbls[name] EXCEPT !.rows[row_index + 1] = row]),
                       files, name, fails)
              ELSE Res("Table", tbls, files)

\* FileStorage::load: the map is cleared, then load_table for the files in
\* the order of read_dir; the first file that cannot be read or parsed
\* returns its error, and the tables loaded before it stay in the map.
FaultLoad(files, order, unreadable) ==
    IF \E i \in 1..Len(order) : order[i] \in unreadable
    THEN Res("Io",
             [n \in {order[i] : i \in 1..(Min({j \in 1..Len(order) :
                                                  order[j] \in unreadable}) - 1)} |->
                 DeserializeTable(files[n])],
             files)
    ELSE Res("none", FileLoad(files), files)

\* The directory a store is opened on: t (id INT PRIMARY KEY, name
\* VARCHAR(2)) with the row (1,'a'), and u (v INT NOT NULL) with (1).
FaultDir ==
    Put(Put(NoFiles, "t",
            SerializeTable([name |-> "t",
                            columns |-> << Col("id", "Int", 0, TRUE, TRUE),
                                           Col("name", "Varchar", 2, TRUE, FALSE) >>,
                            rows |-> << <<Int32(1), Varchar("a")>> >>])),
        "u",
        SerializeTable([name |-> "u", columns |-> << Col("v", "Int", 0, FALSE, FALSE) >>,
                        rows |-> << <<Int32(1)>> >>]))

\* FileStorage::new on a new directory or on FaultDir.
FaultInit ==
    /\ storeKind = "file"
    /\ disk \in {NoFiles, FaultDir}
    /\ tables = FileLoad(disk)
    /\ last = [op |-> "new"]
    /\ steps = 0
    /\ run = NoRun

\* The store after a call, and the record of the call with the catalog it
\* started from.
FaultBecomes(op, fails, r) ==
    /\ tables' = r.tables
    /\ disk' = r.disk
    /\ last' = [op |-> op, fails |-> fails, err |-> r.err, before |-> tables]
    /\ steps' = steps + 1
    /\ UNCHANGED <<storeKind, run>>

FaultCreate ==
    /\ steps < MaxSteps
    /\ \E name \in TableNames, columns \in Schemas, fails \in BOOLEAN :
          FaultBecomes("create_table", fails,
                       FaultCreateTable(tables, disk, NewTable(name, columns), fails))

FaultDrop ==
    /\ steps < MaxSteps
    /\ \E name \in TableNames, fails \in BOOLEAN :
          FaultBecomes("drop_table", fails, FaultDropTable(tables, disk, name, fails))

FaultInsert ==
    /\ steps < MaxSteps
    /\ \E name \in TableNames, row \in InputRows, fails \in BOOLEAN :
          FaultBecomes("insert_row", fails, FaultInsertRow(tables, disk, name, row, fails))

FaultDelete ==
    /\ steps < MaxSteps
    /\ \E name \in TableNames, row_index \in 0..MaxIndex, fails \in BOOLEAN :
          FaultBecomes("delete_row", fails,
                       FaultDeleteRow(tables, disk, name, row_index, fails))

FaultUpdate ==
    /\ steps < MaxSteps
    /\ \E name \in TableNames, row_index \in 0..MaxIndex, row \in InputRows,
          fails \in BOOLEAN :
          FaultBecomes("update_row", fails,
                       FaultUpdateRow(tables, disk, name, row_index, row, fails))

FaultLoads ==
    /\ steps < MaxSteps
    /\ \E order \in Orders(disk), unreadable \in SUBSET (DOMAIN disk) :
          FaultBecomes("load", unreadable # {}, FaultLoad(disk, order, unreadable))

FaultNext ==
    \/ FaultCreate
    \/ FaultDrop
    \/ FaultInsert
    \/ FaultDelete
    \/ FaultUpdate
    \/ FaultLoads

FaultSpec == FaultInit /\ [][FaultNext]_vars

(***************************************************************************)
(* C31: when an operation of the directory store returns an error, an I/O  *)
(* or serialization error included, the in-memory catalog is the same as   *)
(* before the operation.                                                   *)
(***************************************************************************)
\* C31: after a call that returned an error the catalog is the one the
\* call started from.
C31_ErrorKeepsCatalog ==
    (last.op # "new" /\ last.err # "none") => tables = last.before

\* The same for the errors that are not raised by a file operation.
C31_OtherErrorsKeepCatalog ==
    (last.op # "new" /\ last.err \notin {"none", "Io"}) => tables = last.before

\* create_table has returned an I/O error and the table is in the catalog.
C31_Witness ==
    /\ last.op = "create_table"
    /\ last.err = "Io"
    /\ DOMAIN tables # DOMAIN last.before

\* load has returned an error and the catalog has lost a table.
C31_WitnessLoad ==
    /\ last.op = "load"
    /\ last.err = "Io"
    /\ DOMAIN last.before \ DOMAIN tables # {}

(***************************************************************************)
(* PairSpec: a memory store and a directory store, both new, given the     *)
(* same sequence of Storage calls (storage/mod.rs trait Storage).  The     *)
(* directory store lives in tables and disk, the memory store in           *)
(* run.memory.                                                             *)
(***************************************************************************)
PairInit ==
    /\ storeKind = "file"
    /\ disk = NoFiles
    /\ tables = FileLoad(NoFiles)
    /\ last = [op |-> "new"]
    /\ steps = 0
    /\ run = [entry |-> "pair", memory |-> NoTables]

\* Both stores after the same call: f is the result of the directory
\* store, m of the memory store.
PairBecomes(op, f, m) ==
    /\ tables' = f.tables
    /\ disk' = f.disk
    /\ run' = [run EXCEPT !.memory = m.tables]
    /\ last' = [op |-> op, file |-> f.err, memory |-> m.err]
    /\ steps' = steps + 1
    /\ UNCHANGED storeKind

PairCreateTable ==
    /\ steps < MaxSteps
    /\ \E name \in TableNames, columns \in Schemas :
          PairBecomes("create_table",
                      FileCreateTable(tables, disk, NewTable(name, columns)),
                      MemoryCreateTable(run.memory, NoFiles, NewTable(name, columns)))

PairDropTable ==
    /\ steps < MaxSteps
    /\ \E name \in TableNames :
          PairBecomes("drop_table", FileDropTable(tables, disk, name),
                      MemoryDropTable(run.memory, NoFiles, name))

PairInsertRow ==
    /\ steps < MaxSteps
    /\ \E name \in TableNames, row \in InputRows :
          PairBecomes("insert_row", FileInsertRow(tables, disk, name, row),
                      MemoryInsertRow(run.memory, NoFiles, name, row))

PairDeleteRow ==
    /\ steps < MaxSteps
    /\ \E name \in TableNames, row_index \in 0..MaxIndex :
          PairBecomes("delete_row", FileDeleteRow(tables, disk, name, row_index),
                      MemoryDeleteRow(run.memory, NoFiles, name, row_index))

PairUpdateRow ==
    /\ steps < MaxSteps
    /\ \E name \in TableNames, row_index \in 0..MaxIndex, row \in InputRows :
          PairBecomes("update_row", FileUpdateRow(tables, disk, name, row_index, row),
                      MemoryUpdateRow(run.memory, NoFiles, name, row_index, row))

PairNext ==
    \/ PairCreateTable
    \/ PairDropTable
    \/ PairInsertRow
    \/ PairDeleteRow
    \/ PairUpdateRow

PairSpec == PairInit /\ [][PairNext]_vars

(***************************************************************************)
(* C32: on every sequence of store operations without I/O failures the     *)
(* memory store and the directory store return the same outcome for each   *)
(* operation and hold the same catalog afterwards.                         *)
(***************************************************************************)
\* C32: after every call both stores have returned the same result
\* (success or the same kind of error) and hold the same catalog.
C32_StoresAgree ==
    /\ tables = run.memory
    /\ last.op # "new" => last.file = last.memory

\* The two stores hold the same catalog, and succeed on the same calls.
C32_SameCatalogSameSuccess ==
    /\ tables = run.memory
    /\ last.op # "new" => ((last.file = "none") <=> (last.memory = "none"))

\* The results are the same for every operation other than update_row.
C32_SameOutcomeButUpdateRow ==
    last.op \notin {"new", "update_row"} => last.file = last.memory

\* update_row with a row index out of range and a row that fails
\* validation: the directory store has returned the validation error, the
\* memory store the table error.
C32_Witness ==
    /\ last.op = "update_row"
    /\ last.file \in {"TypeMismatch", "NullValue", "PrimaryKeyViolation"}
    /\ last.memory = "Table"

(***************************************************************************)
(* DELETE statements as text: Database::execute_sql on the tokens of       *)
(* DELETE FROM t [WHERE ...] followed by whatever the text goes on with    *)
(* (sql/parser.rs parse, parse_statement, parse_delete).                   *)
(***************************************************************************)
\* parse_delete: [err, statement, pos]; pos is the position the parser has
\* reached when it returns.
DeleteParsed(tokens, table, c) ==
    IF c.err # "none" THEN [err |-> "Sql", statement |-> NoStatement, pos |-> 0]
    ELSE [err |-> "none", statement |-> StDelete(table, c.w), pos |-> c.pos]

ParseDelete(tokens) ==
    IF Peek(tokens, 1).tok # "Delete" \/ Peek(tokens, 2).tok # "From"
       \/ Peek(tokens, 3).tok # "Identifier"
    THEN [err |-> "Sql", statement |-> NoStatement, pos |-> 0]
    ELSE IF Peek(tokens, 4).tok = "Where"
         THEN DeleteParsed(tokens, Peek(tokens, 3).s, ParseWhereClause(tokens, 4))
         ELSE [err |-> "none", statement |-> StDelete(Peek(tokens, 3).s, NoWhere),
               pos |-> 4]

\* The tokens of DELETE FROM table.
DeleteTokens(table) == << Keyword("Delete"), Keyword("From"), Identifier(table) >>

\* Conditions that no row makes fail: =, != and IS NULL on the columns of t.
Atoms ==
    { Simple("id", "Eq", Int32(1)), Simple("id", "Eq", Int32(2)),
      Simple("id", "Ne", Int32(1)), Simple("name", "Eq", Varchar("a")),
      Simple("name", "IsNull", Null) }

\* The three texts of a condition over atoms a, b, c.
ConditionShapes == {"a OR b AND c", "a AND b OR c", "(a OR b) AND c"}

ShapeTokens(shape, a, b, c) ==
    CASE shape = "a OR b AND c" ->
            WhereTokens(a) \o << Keyword("Or") >> \o WhereTokens(b)
            \o << Keyword("And") >> \o WhereTokens(c)
      [] shape = "a AND b OR c" ->
            WhereTokens(a) \o << Keyword("And") >> \o WhereTokens(b)
            \o << Keyword("Or") >> \o WhereTokens(c)
      [] OTHER ->
            << Keyword("LParen") >> \o WhereTokens(a) \o << Keyword("Or") >>
            \o WhereTokens(b) \o << Keyword("RParen"), Keyword("And") >>
            \o WhereTokens(c)

\* Comparisons `col op literal` of every operator with every kind of
\* literal.
Comparisons ==
    { Simple(c, o, v) : c \in {"id", "name"},
                        o \in {"Eq", "Ne", "Gt", "Lt", "Ge", "Le"},
                        v \in {Int32(1), Int32(2), Varchar("a"), Varchar("abc"), Null} }

\* What a text goes on with after DELETE FROM t: nothing, tokens that do
\* not start a WHERE clause, or a WHERE clause followed by more tokens.
Tails ==
    { << >>,
      << Keyword("Where") >> \o WhereTokens(Simple("id", "Eq", Int32(1))),
      << Identifier("WERE") >> \o WhereTokens(Simple("id", "Eq", Int32(1))),
      WhereTokens(Simple("id", "Eq", Int32(1))),
      << Keyword("And") >> \o WhereTokens(Simple("id", "Eq", Int32(1))),
      << Token("Number", "", 1) >>,
      << Keyword("Where") >> \o WhereTokens(Simple("id", "Eq", Int32(1)))
          \o << Identifier("x") >>,
      << Keyword("Where") >> \o WhereTokens(Simple("id", "Eq", Int32(1)))
          \o WhereTokens(Simple("id", "Eq", Int32(2))),
      << Keyword("Where") >> \o WhereTokens(Simple("id", "Eq", Int32(1)))
          \o << Keyword("RParen") >> }

\* Database::execute_sql on the tokens of one DELETE text: parse, then
\* execute what the parser returned.
DeleteTextBecomes(form, shape, atoms, tokens, p) ==
    \E r \in (IF p.err # "none" THEN {XRes(p.err, tables, disk, 0)}
              ELSE {Execute(storeKind, tables, disk, p.statement)}) :
       /\ tables' = r.tables
       /\ disk' = r.disk
       /\ last' = [op |-> "execute_sql", form |-> form, shape |-> shape,
                   atoms |-> atoms, tokens |-> tokens, parsed |-> (p.err = "none"),
                   stmt |-> p.statement, pos |-> p.pos, err |-> r.err,
                   before |-> tables]

DeleteText(form, shape, atoms, tokens) ==
    /\ DeleteTextBecomes(form, shape, atoms, tokens, ParseDelete(tokens))
    /\ steps' = steps + 1
    /\ UNCHANGED <<storeKind, run>>

\* DELETE FROM t WHERE <three atoms joined by AND and OR> [;]
DeletePrecedenceText ==
    /\ steps = 0
    /\ \E table \in TableNames, shape \in ConditionShapes, a \in Atoms, b \in Atoms,
          c \in Atoms, semicolon \in BOOLEAN :
           DeleteText("precedence", shape, <<a, b, c>>,
                      DeleteTokens(table) \o << Keyword("Where") >>
                      \o ShapeTokens(shape, a, b, c)
                      \o (IF semicolon THEN << Keyword("Semicolon") >> ELSE << >>))

\* DELETE FROM t WHERE col op literal
DeleteComparisonText ==
    /\ steps = 0
    /\ \E table \in TableNames, w \in Comparisons :
           DeleteText("comparison", "a", <<w>>,
                      DeleteTokens(table) \o << Keyword("Where") >> \o WhereTokens(w))

\* DELETE FROM t <tail> [;]
DeleteTailText ==
    /\ steps = 0
    /\ \E table \in TableNames, tail \in Tails, semicolon \in BOOLEAN :
           DeleteText("tail", "", << >>,
                      DeleteTokens(table) \o tail
                      \o (IF semicolon THEN << Keyword("Semicolon") >> ELSE << >>))

DeleteNext ==
    \/ DeletePrecedenceText
    \/ DeleteComparisonText
    \/ DeleteTailText

DeleteSpec == StmtInit /\ [][DeleteNext]_vars

(***************************************************************************)
(* C33: in WHERE, AND binds tighter than OR and parentheses override.      *)
(***************************************************************************)
\* The condition a text of the given shape stands for.
ShapeCondition(shape, atoms) ==
    CASE shape = "a OR b AND c" -> Or(atoms[1], And(atoms[2], atoms[3]))
      [] shape = "a AND b OR c" -> Or(And(atoms[1], atoms[2]), atoms[3])
      [] OTHER -> And(Or(atoms[1], atoms[2]), atoms[3])

\* The truth of the text of the given shape on a row, from the truth of
\* its atoms.
ShapeHolds(shape, atoms, row, columns) ==
    LET T(i) == EvaluateSimple(row, atoms[i], columns) = "true"
    IN CASE shape = "a OR b AND c" -> T(1) \/ (T(2) /\ T(3))
         [] shape = "a AND b OR c" -> (T(1) /\ T(2)) \/ T(3)
         [] OTHER -> (T(1) \/ T(2)) /\ T(3)

\* C33: a DELETE whose WHERE is `a OR b AND c`, `a AND b OR c` or
\* `(a OR b) AND c` is parsed as a OR (b AND c), (a AND b) OR c and
\* (a OR b) AND c, and when it succeeds it has removed exactly the rows on
\* which that combination of the atoms is true.
C33_AndBindsTighterThanOr ==
    last.op = "execute_sql" /\ last.form = "precedence"
    => /\ last.parsed
       /\ last.stmt.where_clause = ShapeCondition(last.shape, last.atoms)
       /\ (last.err = "none"
           => tables[last.stmt.table].rows
                = SelectSeq(last.before[last.stmt.table].rows,
                            LAMBDA row : ~ShapeHolds(last.shape, last.atoms, row,
                                              last.before[last.stmt.table].columns)))

\* DELETE FROM t WHERE id = 1 AND name IS NULL OR id = 2 on (1,'a'),
\* (2,NULL) has removed (2,NULL): the row makes (a AND b) OR c true and
\* a AND (b OR c) false.
C33_Witness ==
    /\ last.op = "execute_sql"
    /\ last.form = "precedence"
    /\ last.shape = "a AND b OR c"
    /\ last.atoms = << Simple("id", "Eq", Int32(1)), Simple("name", "IsNull", Null),
                       Simple("id", "Eq", Int32(2)) >>
    /\ last.err = "none"
    /\ last.before["t"].rows = << <<Int32(1), Varchar("a")>>, <<Int32(2), Null>> >>
    /\ tables["t"].rows = << <<Int32(1), Varchar("a")>> >>

(***************************************************************************)
(* C34: = and != never fail and compare variant-wise; <, >, <=, >= fail    *)
(* the statement on a pair that is not two integers or two texts.          *)
(***************************************************************************)
\* The pairs on which the ordering operators are defined.
Ordered(cell, v) ==
    \/ cell.tag = "Int" /\ v.tag = "Int"
    \/ cell.tag = "Varchar" /\ v.tag = "Varchar"

\* The truth of `cell operator v`: equality of the variants and their
\* contents for = and !=, the order of the integers or of the texts for
\* the ordering operators on a pair they are defined for.
ComparisonHolds(cell, operator, v) ==
    LET x == IF cell.tag = "Int" THEN cell.i ELSE StrRank(cell.s)
        y == IF v.tag = "Int" THEN v.i ELSE StrRank(v.s)
    IN CASE operator = "Eq" -> cell.tag = v.tag /\ cell.i = v.i /\ cell.s = v.s
         [] operator = "Ne" -> ~(cell.tag = v.tag /\ cell.i = v.i /\ cell.s = v.s)
         [] operator = "Gt" -> x > y
         [] operator = "Lt" -> x < y
         [] operator = "Ge" -> x >= y
         [] OTHER -> x <= y

\* The last call was DELETE FROM t WHERE col op literal for a table t of
\* the catalog with a column col.
IsComparisonText ==
    /\ last.op = "execute_sql"
    /\ last.form = "comparison"
    /\ last.parsed
    /\ last.stmt.table \in DOMAIN last.before
    /\ ColumnIndex(last.before[last.stmt.table].columns, last.atoms[1].column) # 0

\* The rows of the table before the call on which the comparison is false.
ComparisonSurvivors(t, w) ==
    SelectSeq(t.rows,
              LAMBDA row : ~ComparisonHolds(row[ColumnIndex(t.columns, w.column)],
                                            w.operator, w.value))

\* C34: DELETE FROM t WHERE col op literal with = or != succeeds and removes
\* the rows whose cell is (is not) the literal, variant and content; with
\* <, >, <=, >= it returns an error exactly when some row's cell and the
\* literal are not two integers or two texts (a NULL cell included), and
\* otherwise removes the rows on which the comparison is true.
C34_ComparisonOutcome ==
    IsComparisonText
    => LET t == last.before[last.stmt.table]
           w == last.atoms[1]
           ci == ColumnIndex(t.columns, w.column)
           undefined == \E r \in 1..Len(t.rows) : ~Ordered(t.rows[r][ci], w.value)
       IN /\ last.stmt.where_clause = w
          /\ w.operator \in {"Eq", "Ne"}
               => /\ last.err = "none"
                  /\ tables[last.stmt.table].rows = ComparisonSurvivors(t, w)
          /\ w.operator \notin {"Eq", "Ne"}
               => /\ (last.err # "none") <=> undefined
                  /\ ~undefined
                       => tables[last.stmt.table].rows = ComparisonSurvivors(t, w)

\* DELETE FROM t WHERE name < 'abc' on (1,'a'), (2,NULL) has returned an
\* error: the cell of the second row is NULL.
C34_Witness ==
    /\ IsComparisonText
    /\ last.atoms = << Simple("name", "Lt", Varchar("abc")) >>
    /\ last.before[last.stmt.table].rows
          = << <<Int32(1), Varchar("a")>>, <<Int32(2), Null>> >>
    /\ last.err = "Sql"

\* DELETE FROM t WHERE name = NULL on (1,'a'), (2,NULL) has succeeded and
\* removed the row whose name is NULL.
C34_WitnessEqNull ==
    /\ IsComparisonText
    /\ last.atoms = << Simple("name", "Eq", Null) >>
    /\ last.before[last.stmt.table].rows
          = << <<Int32(1), Varchar("a")>>, <<Int32(2), Null>> >>
    /\ last.err = "none"
    /\ tables[last.stmt.table].rows = << <<Int32(1), Varchar("a")>> >>

(***************************************************************************)
(* C36: a statement is accepted only if its grammar has consumed every     *)
(* token up to an optional final `;`.                                      *)
(***************************************************************************)
\* The parser has returned a statement and stands at the end of the tokens
\* or at a final `;`.
ConsumedToEnd ==
    /\ last.parsed
    /\ \/ last.pos > Len(last.tokens)
       \/ last.pos = Len(last.tokens) /\ last.tokens[last.pos].tok = "Semicolon"

\* C36: a DELETE text whose tokens the grammar does not consume up to an
\* optional final `;` is rejected and no table changes.
C36_UnconsumedTokensRejected ==
    last.op = "execute_sql" /\ last.form = "tail" /\ ~ConsumedToEnd
    => last.err # "none" /\ tables = last.before

\* A DELETE text accepted with tokens left over has been executed as the
\* statement of the tokens the grammar consumed: without a WHERE clause
\* when the fourth token is not WHERE.
C36_LeftoverTokensIgnored ==
    last.op = "execute_sql" /\ last.form = "tail" /\ last.parsed /\ ~ConsumedToEnd
    => /\ last.stmt.stmt = "Delete"
       /\ last.tokens[4].tok # "Where" => last.stmt.where_clause = NoWhere
       /\ last.tokens[4].tok = "Where"
            => last.stmt.where_clause = Simple("id", "Eq", Int32(1))

\* DELETE FROM t WERE id = 1 on (1,'a'), (2,NULL) has succeeded and left t
\* without rows.
C36_Witness ==
    /\ last.op = "execute_sql"
    /\ last.form = "tail"
    /\ last.tokens = DeleteTokens("t") \o << Identifier("WERE") >>
                       \o WhereTokens(Simple("id", "Eq", Int32(1)))
    /\ last.err = "none"
    /\ last.before["t"].rows = << <<Int32(1), Varchar("a")>>, <<Int32(2), Null>> >>
    /\ tables["t"].rows = << >>

(***************************************************************************)
(* SELECT ... ORDER BY (sql/parser.rs parse_order_by, sql/executor.rs      *)
(* apply_order_by).  The cells compared are the strings handed to the      *)
(* formatter.                                                              *)
(***************************************************************************)
MaxRows == 3

\* The integers whose decimal text is a cell of the tables considered.
CellNumbers == 0..10

\* str.parse::<i64>() on a cell: [ok, n].
ParseI64(str) ==
    IF \E n \in CellNumbers : DecimalString(n) = str
    THEN [ok |-> TRUE, n |-> CHOOSE n \in CellNumbers : DecimalString(n) = str]
    ELSE [ok |-> FALSE, n |-> 0]

\* The cells in the order of Ord for str (byte by byte).
ByteOrder == << "1", "10", "1a", "2", "NULL", "a" >>
CellRank(str) == CHOOSE i \in 1..Len(ByteOrder) : ByteOrder[i] = str

\* Ordering::Less, Equal, Greater of two integers.
Cmp(x, y) == IF x < y THEN "Less" ELSE IF x = y THEN "Equal" ELSE "Greater"

\* A comparison closure that compares the cells as strings only.
CompareCellsAsStrings(a_val, b_val, direction) ==
    IF direction = "Asc" THEN Cmp(CellRank(a_val), CellRank(b_val))
    ELSE Cmp(CellRank(b_val), CellRank(a_val))

\* The closure of rows.sort_by: numbers when both cells parse, strings
\* otherwise; the operands are swapped for Desc.
CompareCells(a_val, b_val, direction) ==
    IF ParseI64(a_val).ok /\ ParseI64(b_val).ok
    THEN (IF direction = "Asc" THEN Cmp(ParseI64(a_val).n, ParseI64(b_val).n)
          ELSE Cmp(ParseI64(b_val).n, ParseI64(a_val).n))
    ELSE (IF direction = "Asc" THEN Cmp(CellRank(a_val), CellRank(b_val))
          ELSE Cmp(CellRank(b_val), CellRank(a_val)))

RECURSIVE InsertTail(_, _, _, _)
\* slice::sort_by on a short slice is an insertion sort: the new element
\* moves left past every element it is less than.
InsertTail(sorted, row, ci, direction) ==
    IF sorted = << >> THEN << row >>
    ELSE IF CompareCells(row[ci], sorted[Len(sorted)][ci], direction) = "Less"
         THEN Append(InsertTail(SubSeq(sorted, 1, Len(sorted) - 1), row, ci, direction),
                     sorted[Len(sorted)])
         ELSE Append(sorted, row)

RECURSIVE SortBy(_, _, _)
SortBy(rows, ci, direction) ==
    IF rows = << >> THEN << >>
    ELSE InsertTail(SortBy(SubSeq(rows, 1, Len(rows) - 1), ci, direction),
                    rows[Len(rows)], ci, direction)

\* headers.iter().position(|col| col == &order_by.column), from 1; 0 when
\* the column is not a header.
HeaderIndex(headers, column) ==
    IF \E i \in 1..Len(headers) : headers[i] = column
    THEN CHOOSE i \in 1..Len(headers) :
            headers[i] = column /\ \A j \in 1..(i - 1) : headers[j] # column
    ELSE 0

\* apply_order_by: [err, rows]
ApplyOrderBy(rows, headers, order_by) ==
    IF HeaderIndex(headers, order_by.column) = 0 THEN [err |-> "Sql", rows |-> << >>]
    ELSE [err |-> "none",
          rows |-> SortBy(rows, HeaderIndex(headers, order_by.column), order_by.direction)]

\* order_by: None
NoOrderBy == [column |-> "", direction |-> "None"]

\* parse_order_by: [err, order_by]
ParseOrderBy(tokens, pos) ==
    IF Peek(tokens, pos).tok # "Order" THEN [err |-> "none", order_by |-> NoOrderBy]
    ELSE IF Peek(tokens, pos + 1).tok # "By" \/ Peek(tokens, pos + 2).tok # "Identifier"
    THEN [err |-> "Sql", order_by |-> NoOrderBy]
    ELSE [err |-> "none",
          order_by |-> [column |-> Peek(tokens, pos + 2).s,
                        direction |-> IF Peek(tokens, pos + 3).tok = "Desc" THEN "Desc"
                                      ELSE "Asc"]]

\* The position after FROM table [WHERE ...], where parse_normal_select
\* calls parse_order_by.
AfterWhere(tokens, from) ==
    IF Peek(tokens, from + 2).tok = "Where" THEN ParseWhereClause(tokens, from + 2).pos
    ELSE from + 2

\* parse_statement on a SELECT text, with its ORDER BY clause:
\* [err, statement, order_by]
OrderedSelect(st, ob) ==
    IF st.err # "none" \/ ob.err # "none"
    THEN [err |-> "Sql", statement |-> NoStatement, order_by |-> NoOrderBy]
    ELSE [err |-> "none", statement |-> st.statement, order_by |-> ob.order_by]

ParseOrderedSelect(tokens) ==
    OrderedSelect(ParseSelect(tokens),
                  ParseOrderBy(tokens,
                      AfterWhere(tokens, CHOOSE i \in 1..Len(tokens) :
                                            /\ tokens[i].tok = "From"
                                            /\ \A j \in 1..(i - 1) : tokens[j].tok # "From")))

\* display_columns / headers of a SELECT of `*` or of column names.
HeadersOf(st, tbls) ==
    IF st.stmt = "Select"
    THEN [i \in 1..Len(tbls[st.table].columns) |-> tbls[st.table].columns[i].name]
    ELSE [i \in 1..Len(st.expressions) |-> st.expressions[i].name]

\* SqlStatement::Select and SelectWithExpressions with their ORDER BY: the
\* selected rows are collected, then sorted, then printed.
AfterOrderBy(q, headers, order_by, sorted) ==
    IF sorted.err # "none" THEN QueryResult("Sql", << >>, FALSE)
    ELSE QueryResult("none", sorted.rows, q.has_output)

ExecOrdered(q, headers, order_by) ==
    IF q.err # "none" \/ order_by = NoOrderBy THEN q
    ELSE AfterOrderBy(q, headers, order_by, ApplyOrderBy(q.rows, headers, order_by))

\* The rows of t (k VARCHAR(2), n INT).
OrderRows ==
    { <<Varchar("10"), Int32(2)>>, <<Varchar("2"), Int32(10)>>, <<Varchar("1a"), Null>>,
      <<Varchar("2"), Int32(2)>>, <<Varchar("a"), Int32(1)>> }

\* Database::new on a new directory, CREATE TABLE t (k VARCHAR(2), n INT)
\* and up to MaxRows INSERTs.
OrderInit ==
    /\ storeKind = "file"
    /\ \E len \in 0..MaxRows : \E rows \in [1..len -> OrderRows] :
          LET r == RunStatements(storeKind, DatabaseNew(storeKind, NoFiles), NoFiles,
                       << StCreateTable("t", << Col("k", "Varchar", 2, TRUE, FALSE),
                                                Col("n", "Int", 0, TRUE, FALSE) >>) >>
                       \o [i \in 1..len |-> StInsert("t", rows[i])])
          IN /\ tables = r.tables
             /\ disk = r.disk
    /\ last = [op |-> "new"]
    /\ steps = 0
    /\ run = NoRun

\* The tokens of [ORDER BY c [ASC | DESC]].
OrderByTokens(column, direction) ==
    IF direction = "None" THEN << >>
    ELSE << Keyword("Order"), Keyword("By"), Identifier(column) >>
         \o (CASE direction = "Asc" -> << Keyword("Asc") >>
              [] direction = "Desc" -> << Keyword("Desc") >>
              [] OTHER -> << >>)

\* SELECT items FROM t [WHERE w] [ORDER BY c [ASC | DESC]];
OrderedSelectTokens(items, w, column, direction) ==
    << Keyword("Select") >>
    \o (IF items = << >> THEN << Keyword("Asterisk") >>
        ELSE ProjectionTokens([i \in 1..Len(items) |-> Column(items[i])]))
    \o << Keyword("From"), Identifier("t") >>
    \o (IF w = NoWhere THEN << >> ELSE << Keyword("Where") >> \o WhereTokens(w))
    \o OrderByTokens(column, direction)
    \o << Keyword("Semicolon") >>

\* Database::execute_sql_with_output on the text of a SELECT: parse, then
\* execute.  The call is recorded with the rows that match (the rows of
\* the same SELECT without ORDER BY) and the rows printed.
OrderSelectBecomes(tokens, direction, p, order) ==
    \E q \in (IF p.err # "none" THEN {QueryResult("Sql", << >>, FALSE)}
              ELSE {ExecuteQuery(p.statement, tables, order)}) :
    \E r \in (IF p.err # "none" THEN {q}
              ELSE {ExecOrdered(q, HeadersOf(p.statement, tables), p.order_by)}) :
       last' = [op |-> "select", tokens |-> tokens, text_direction |-> direction,
                parsed |-> (p.err = "none"), stmt |-> p.statement,
                order_by |-> p.order_by,
                headers |-> (IF p.err # "none" THEN << >>
                             ELSE HeadersOf(p.statement, tables)),
                matching |-> q.rows, err |-> r.err, rows |-> r.rows]

OrderSelect ==
    /\ steps = 0
    /\ \E items \in {<< >>, <<"k">>, <<"n", "k">>},
          w \in {NoWhere, Simple("n", "IsNotNull", Null), Simple("k", "Ne", Varchar("2"))},
          column \in {"k", "n", "zz"},
          direction \in {"None", "Default", "Asc", "Desc"} :
          OrderSelectBecomes(OrderedSelectTokens(items, w, column, direction), direction,
                             ParseOrderedSelect(OrderedSelectTokens(items, w, column,
                                                                    direction)),
                             <<"t">>)
    /\ steps' = steps + 1
    /\ UNCHANGED <<storeKind, tables, disk, run>>

OrderNext == OrderSelect

OrderSpec == OrderInit /\ [][OrderNext]_vars

(***************************************************************************)
(* C35: the rows printed by SELECT ... ORDER BY c are a permutation of the *)
(* matching rows, each row less than or equal to the next on c (greater    *)
(* than or equal with DESC), numerically when both cells parse as          *)
(* integers and as strings otherwise.                                      *)
(***************************************************************************)
\* a <= b under `numeric when both cells parse as integers, string order
\* otherwise`.
CellLeq(a, b) ==
    IF ParseI64(a).ok /\ ParseI64(b).ok THEN ParseI64(a).n <= ParseI64(b).n
    ELSE CellRank(a) <= CellRank(b)

\* The rows of table t on which the WHERE of the statement is true, with
\* the cells of the headers as they are printed.
MatchingRows(t, w, headers) ==
    LET kept == SelectSeq(t.rows, LAMBDA row : Matches(row, w, t.columns) = "true")
    IN [r \in 1..Len(kept) |->
          [i \in 1..Len(headers) |-> Display(kept[r][ColumnIndex(t.columns, headers[i])])]]

\* a and b hold the same rows the same number of times.
IsPermutation(a, b) ==
    /\ Len(a) = Len(b)
    /\ \A i \in 1..Len(a) :
          Cardinality({j \in 1..Len(a) : a[j] = a[i]})
            = Cardinality({j \in 1..Len(b) : b[j] = a[i]})

\* The last call was a successful SELECT with an ORDER BY clause.
IsOrderedSelect ==
    /\ last.op = "select"
    /\ last.text_direction # "None"
    /\ last.err = "none"

C35_WitnessDesc ==
    /\ IsOrderedSelect
    /\ last.text_direction = "Desc"
    /\ last.order_by.column = "n"
    /\ last.headers = <<"n", "k">>
    /\ last.rows = << <<"NULL", "1a">>, <<"2", "10">>, <<"1", "a">> >>

(***************************************************************************)
(* Transaction (core/transaction.rs): a transaction begun on a prepared    *)
(* database, the operations issued through it, then commit or rollback.    *)
(***************************************************************************)
MaxChanges == 2

\* TableChange
ChangeInsert(row) == [change |-> "Insert", row_index |-> 0, row |-> row]
ChangeUpdate(row_index, row) == [change |-> "Update", row_index |-> row_index, row |-> row]
ChangeDelete(row_index) == [change |-> "Delete", row_index |-> row_index, row |-> << >>]

\* table_changes: HashMap::new()
NoChanges == [n \in {} |-> << >>]

\* entry(table_name).or_insert_with(Vec::new).push(change)
PushChange(table_changes, name, change) ==
    Put(table_changes, name,
        IF name \in DOMAIN table_changes THEN Append(table_changes[name], change)
        ELSE << change >>)

RECURSIVE ApplyChanges(_, _)
\* The inner loop of commit on one table: [err, table].  The changes made
\* before a failing insert stay in the table.
AfterInsert(r, changes) ==
    IF r.err # "none" THEN r ELSE ApplyChanges(r.table, changes)

ApplyChanges(t, changes) ==
    IF changes = << >> THEN [err |-> "none", table |-> t]
    ELSE CASE Head(changes).change = "Insert" ->
                AfterInsert(TableInsertRow(t, Head(changes).row), Tail(changes))
           [] Head(changes).change = "Update" ->
                ApplyChanges(IF Head(changes).row_index < Len(t.rows)
                             THEN [t EXCEPT !.rows[Head(changes).row_index + 1] =
                                                Head(changes).row]
                             ELSE t,
                             Tail(changes))
           [] OTHER ->
                ApplyChanges(IF Head(changes).row_index < Len(t.rows)
                             THEN [t EXCEPT !.rows = RemoveAt(@, Head(changes).row_index + 1)]
                             ELSE t,
                             Tail(changes))

RECURSIVE CommitLoop(_, _, _)
\* The outer loop of commit over the entries of table_changes in the
\* order the HashMap yields them: [err, tables].
AfterTable(tbls, table_changes, order, r) ==
    IF r.err # "none" THEN [err |-> r.err, tables |-> Put(tbls, Head(order), r.table)]
    ELSE CommitLoop(Put(tbls, Head(order), r.table), table_changes, Tail(order))

CommitLoop(tbls, table_changes, order) ==
    IF order = << >> THEN [err |-> "none", tables |-> tbls]
    ELSE IF Head(order) \notin DOMAIN tbls THEN [err |-> "Table", tables |-> tbls]
    ELSE AfterTable(tbls, table_changes, order,
                    ApplyChanges(tbls[Head(order)], table_changes[Head(order)]))

\* Rows of the operations issued through the transaction.
TxRows == { <<Int32(3), Varchar("a")>>, <<Int32(1), Varchar("a")>>, <<Int32(1)>> }

\* Columns of the tables created through the transaction: (v INT NOT NULL).
TxColumns == << Col("v", "Int", 0, FALSE, FALSE) >>

\* Database::new, the preparing script, then begin_transaction.
TxInit ==
    /\ storeKind \in {"memory", "file"}
    /\ \E script \in PreparedScripts :
          LET r == RunStatements(storeKind, DatabaseNew(storeKind, NoFiles), NoFiles, script)
          IN /\ tables = r.tables
             /\ disk = r.disk
             /\ run = [entry |-> "transaction", state |-> "Active",
                       table_changes |-> NoChanges, begin |-> r.tables,
                       begin_disk |-> r.disk, applied |-> FALSE]
    /\ last = [op |-> "begin"]
    /\ steps = 0

\* Transaction::create_table and drop_table: the store is called at once.
TxStoreCall(op, name, r, table_changes) ==
    /\ tables' = r.tables
    /\ disk' = r.disk
    /\ last' = [op |-> op, name |-> name, err |-> r.err, before |-> tables]
    /\ run' = [run EXCEPT !.table_changes = IF r.err = "none" THEN table_changes ELSE @,
                          !.applied = @ \/ r.err = "none"]
    /\ steps' = steps + 1
    /\ UNCHANGED storeKind

TxCreateTable ==
    /\ run.state = "Active"
    /\ steps < MaxChanges
    /\ \E name \in TableNames :
          TxStoreCall("create_table", name,
                      StorageCreateTable(storeKind, tables, disk, NewTable(name, TxColumns)),
                      Put(run.table_changes, name, << >>))

TxDropTable ==
    /\ run.state = "Active"
    /\ steps < MaxChanges
    /\ \E name \in TableNames :
          TxStoreCall("drop_table", name, StorageDropTable(storeKind, tables, disk, name),
                      Remove(run.table_changes, name))

\* Transaction::insert_row, update_row, delete_row: the change is pushed
\* on the list of its table and Ok returned.
TxBuffer(op, name, change) ==
    /\ run' = [run EXCEPT !.table_changes = PushChange(@, name, change)]
    /\ last' = [op |-> op, name |-> name, err |-> "none", before |-> tables]
    /\ steps' = steps + 1
    /\ UNCHANGED <<storeKind, tables, disk>>

TxInsertRow ==
    /\ run.state = "Active"
    /\ steps < MaxChanges
    /\ \E name \in TableNames, row \in TxRows : TxBuffer("insert_row", name, ChangeInsert(row))

TxUpdateRow ==
    /\ run.state = "Active"
    /\ steps < MaxChanges
    /\ \E name \in TableNames, row_index \in 0..MaxIndex,
          row \in {<<Int32(3), Varchar("a")>>, <<Int32(1)>>} :
           TxBuffer("update_row", name, ChangeUpdate(row_index, row))

TxDeleteRow ==
    /\ run.state = "Active"
    /\ steps < MaxChanges
    /\ \E name \in TableNames, row_index \in 0..MaxIndex :
           TxBuffer("delete_row", name, ChangeDelete(row_index))

\* Transaction::commit; the HashMap yields its entries in some order.
TxCommitBecomes(r, order) ==
    /\ tables' = r.tables
    /\ last' = [op |-> "commit", order |-> order, err |-> r.err, before |-> tables]
    /\ run' = [run EXCEPT !.state = "Committed"]
    /\ UNCHANGED <<storeKind, disk, steps>>

TxCommit ==
    /\ run.state = "Active"
    /\ \E order \in Orders(run.table_changes) :
          TxCommitBecomes(CommitLoop(tables, run.table_changes, order), order)

\* Transaction::rollback
TxRollback ==
    /\ run.state = "Active"
    /\ run' = [run EXCEPT !.state = "RolledBack"]
    /\ last' = [op |-> "rollback", err |-> "none", before |-> tables]
    /\ UNCHANGED <<storeKind, tables, disk, steps>>

TxNext ==
    \/ TxCreateTable
    \/ TxDropTable
    \/ TxInsertRow
    \/ TxUpdateRow
    \/ TxDeleteRow
    \/ TxCommit
    \/ TxRollback

TxSpec == TxInit /\ [][TxNext]_vars

(***************************************************************************)
(* C37: after rollback the storage is in the state it had when the         *)
(* transaction began.                                                      *)
(***************************************************************************)
\* C37: once the transaction is rolled back, the tables and the table
\* files are those of the moment the transaction began.
C37_RollbackRestoresStorage ==
    run.state = "RolledBack" => tables = run.begin /\ disk = run.begin_disk

\* The row operations issued through the transaction are not applied by a
\* rollback: when no create_table or drop_table of the transaction
\* succeeded, the storage is as it was at the beginning.
C37_RollbackOfRowOperations ==
    run.state = "RolledBack" /\ ~run.applied
    => tables = run.begin /\ disk = run.begin_disk

\* A transaction that created table u has been rolled back and u exists.
C37_Witness ==
    /\ run.state = "RolledBack"
    /\ last.op = "rollback"
    /\ "u" \notin DOMAIN run.begin
    /\ "u" \in DOMAIN tables

(***************************************************************************)
(* C38: commit is all-or-nothing.                                          *)
(***************************************************************************)
\* C38: a commit that returns an error has applied no buffered change:
\* the tables are those of the moment before the call.
C38_FailedCommitAppliesNothing ==
    last.op = "commit" /\ last.err # "none" => tables = last.before

\* A commit that succeeds has applied, to every table with buffered
\* changes, the changes in the order they were issued.
C38_CommitAppliesChanges ==
    last.op = "commit" /\ last.err = "none"
    => /\ DOMAIN tables = DOMAIN last.before
       /\ \A n \in DOMAIN tables :
             tables[n] = IF n \in DOMAIN run.table_changes
                         THEN ApplyChanges(last.before[n], run.table_changes[n]).table
                         ELSE last.before[n]

\* insert_row(t, (3,'a')) and insert_row(t, (1,'a')) were buffered on t
\* holding (1,'a'), (2,NULL); commit has returned the primary key error of
\* the second insert and t holds (3,'a').
C38_Witness ==
    /\ last.op = "commit"
    /\ last.err = "PrimaryKeyViolation"
    /\ run.table_changes = Put(NoChanges, "t",
                               << ChangeInsert(<<Int32(3), Varchar("a")>>),
                                  ChangeInsert(<<Int32(1), Varchar("a")>>) >>)
    /\ last.before["t"].rows = << <<Int32(1), Varchar("a")>>, <<Int32(2), Null>> >>
    /\ tables["t"].rows = << <<Int32(1), Varchar("a")>>, <<Int32(2), Null>>,
                             <<Int32(3), Varchar("a")>> >>

(***************************************************************************)
(* Integer literals (sql/lexer.rs read_number).  The text of a literal is  *)
(* its sequence of decimal digits; values above 2147483647 exist only as   *)
(* digit sequences.                                                        *)
(***************************************************************************)
\* The digits of i32::MAX.
MaxI32Digits == << 2, 1, 4, 7, 4, 8, 3, 6, 4, 7 >>

RECURSIVE StripZeros(_)
\* The digits without leading zeros (at least one digit is kept).
StripZeros(digits) ==
    IF Len(digits) > 1 /\ Head(digits) = 0 THEN StripZeros(Tail(digits)) ELSE digits

\* The number written by the digits is at most i32::MAX.
FitsI32(digits) ==
    \/ Len(StripZeros(digits)) < Len(MaxI32Digits)
    \/ /\ Len(StripZeros(digits)) = Len(MaxI32Digits)
       /\ ~\E i \in 1..Len(MaxI32Digits) :
              /\ StripZeros(digits)[i] > MaxI32Digits[i]
              /\ \A j \in 1..(i - 1) : StripZeros(digits)[j] = MaxI32Digits[j]

RECURSIVE DecimalValue(_)
\* The number written by digits that fit.
DecimalValue(digits) ==
    IF digits = << >> THEN 0
    ELSE DecimalValue(SubSeq(digits, 1, Len(digits) - 1)) * 10 + digits[Len(digits)]

\* read_number: number.parse().unwrap_or(0) with number: String of digits
\* and the result an i32.
ReadNumber(digits) ==
    IF FitsI32(digits) THEN DecimalValue(digits) ELSE 0

RECURSIVE DigitsOf(_)
\* The decimal digits of an integer n >= 0.
DigitsOf(n) == IF n < 10 THEN << n >> ELSE Append(DigitsOf(n \div 10), n % 10)

\* The integer literals of the statement texts: 0, 1, 2, 3, 007,
\* 2147483647, 2147483648, 4294967297, 10000000000.
LiteralTexts ==
    { << 0 >>, << 1 >>, << 2 >>, << 3 >>, << 0, 0, 7 >>, MaxI32Digits,
      << 2, 1, 4, 7, 4, 8, 3, 6, 4, 8 >>, << 4, 2, 9, 4, 9, 6, 7, 2, 9, 7 >>,
      << 1, 0, 0, 0, 0, 0, 0, 0, 0, 0, 0 >> }

\* Database::execute_sql on a text with integer literals: the lexer reads
\* each literal with read_number, the parser and the executor go on from
\* the tokens.  The call is recorded with the digits of its literals.
LiteralTextBecomes(literals, p) ==
    \E r \in (IF p.err # "none" THEN {XRes(p.err, tables, disk, 0)}
              ELSE {Execute(storeKind, tables, disk, p.statement)}) :
       /\ tables' = r.tables
       /\ disk' = r.disk
       /\ last' = [op |-> "execute_sql", form |-> "literal", literals |-> literals,
                   parsed |-> (p.err = "none"), stmt |-> p.statement, err |-> r.err,
                   before |-> tables]
       /\ steps' = steps + 1
       /\ UNCHANGED <<storeKind, run>>

\* UPDATE table SET column = <literal> WHERE column op <literal>;
LiteralUpdateText ==
    /\ steps = 0
    /\ \E table \in TableNames, column \in {"id", "v"}, a \in LiteralTexts,
          o \in {"Eq", "Lt"}, b \in LiteralTexts :
          LiteralTextBecomes(
              << a, b >>,
              ParseUpdate(UpdateTokens(table, << <<column, Int32(ReadNumber(a))>> >>,
                                       Simple(column, o, Int32(ReadNumber(b))),
                                       TRUE, TRUE)))

\* DELETE FROM table WHERE column op <literal>
LiteralDeleteText ==
    /\ steps = 0
    /\ \E table \in TableNames, column \in {"id", "v"}, o \in {"Eq", "Lt", "Ge"},
          b \in LiteralTexts :
          LiteralTextBecomes(
              << b >>,
              ParseDelete(DeleteTokens(table) \o << Keyword("Where") >>
                          \o WhereTokens(Simple(column, o, Int32(ReadNumber(b))))))

LiteralNext ==
    \/ LiteralUpdateText
    \/ LiteralDeleteText

LiteralSpec == StmtInit /\ [][LiteralNext]_vars

(***************************************************************************)
(* C39: an integer literal becomes the i32 of exactly its decimal value or *)
(* the statement fails.                                                    *)
(***************************************************************************)
\* The integer values of a parsed UPDATE or DELETE, in the order of the
\* text: the SET value, then the WHERE value.
LiteralValues(st) ==
    (IF st.stmt = "Update" THEN << st.set[1][2].i >> ELSE << >>)
    \o (IF st.where_clause = NoWhere THEN << >> ELSE << st.where_clause.value.i >>)

\* C39: in a statement that does not fail, every integer literal has become
\* the integer whose decimal digits are those of the literal (leading zeros
\* aside).
C39_LiteralsKeepTheirValue ==
    last.op = "execute_sql" /\ last.form = "literal" /\ last.err = "none"
    => \A i \in 1..Len(last.literals) :
          DigitsOf(LiteralValues(last.stmt)[i]) = StripZeros(last.literals[i])

\* A literal of at most 2147483647 becomes the integer of its decimal
\* value; a larger one becomes 0, and the statement is parsed.
C39_LargerLiteralsBecomeZero ==
    last.op = "execute_sql" /\ last.form = "literal"
    => /\ last.parsed
       /\ \A i \in 1..Len(last.literals) :
             IF FitsI32(last.literals[i])
             THEN DigitsOf(LiteralValues(last.stmt)[i]) = StripZeros(last.literals[i])
             ELSE LiteralValues(last.stmt)[i] = 0

\* UPDATE u SET v = 2147483648 WHERE v = 1 on u (v INT NOT NULL) holding
\* (1) has succeeded and u holds (0).
C39_Witness ==
    /\ last.op = "execute_sql"
    /\ last.form = "literal"
    /\ last.literals = << << 2, 1, 4, 7, 4, 8, 3, 6, 4, 8 >>, << 1 >> >>
    /\ last.stmt.stmt = "Update"
    /\ last.stmt.table = "u"
    /\ last.err = "none"
    /\ last.before["u"].rows = << <<Int32(1)>> >>
    /\ tables["u"].rows = << <<Int32(0)>> >>

\* DELETE FROM t WHERE id < 2147483648 on (1,'a'), (2,NULL) has succeeded
\* and removed no row.
C39_WitnessCompared ==
    /\ last.op = "execute_sql"
    /\ last.form = "literal"
    /\ last.literals = << << 2, 1, 4, 7, 4, 8, 3, 6, 4, 8 >> >>
    /\ last.stmt = StDelete("t", Simple("id", "Lt", Int32(0)))
    /\ last.err = "none"
    /\ Len(tables["t"].rows) = 2

====
